---- MODULE Spec2Model ----
(***************************************************************************)
(* Leara: the Memory & Task Knowledge Engine.                              *)
(*                                                                         *)
(* The model covers the entity store (tables memory, tasks and             *)
(* session_context of db/migrations.rs), the query functions of            *)
(* db/queries.rs and the MemoryService of system/memory_service.rs.        *)
(*                                                                         *)
(* Texts are TLA+ strings; the text functions (to_lowercase, contains,     *)
(* split_whitespace, SQL LIKE) are computed character by character.        *)
(* Timestamps are whole seconds since the Unix epoch.  The store keeps     *)
(* them as RFC 3339 strings of the fixed offset +00:00, whose byte order   *)
(* is the chronological order, so SQL comparisons of the stored strings    *)
(* are modelled as comparisons of the seconds.                             *)
(* Option<T> is a sequence: None is <<>>, Some(x) is <<x>>.                *)
(***************************************************************************)
EXTENDS Integers, Sequences, FiniteSets, TLC

VARIABLES
    memory,            \* table memory: a set of rows, key UNIQUE
    tasks,             \* table tasks: a set of rows
    session_context,   \* table session_context: UNIQUE(session_id, context_key)
    seq,               \* sqlite_sequence: the last AUTOINCREMENT id of each table
    now,               \* Utc::now(), seconds since the epoch
    resp,              \* what the last operation returned to its caller
    written,           \* history: the value last passed to store_memory, per key
    command_history,   \* table command_history: rows in the order of their ids
    pool,              \* the connection pool: its idle connections
    calls              \* the calls in flight: each caller's position and locals

vars == <<memory, tasks, session_context, seq, now, resp, written,
          command_history, pool, calls>>

\* what an operation served in one step leaves alone
frame == <<command_history, pool, calls>>

None == <<>>
Some(x) == <<x>>
unwrap_or(o, d) == IF o = None THEN d ELSE o[1]

(***************************************************************************)
(* Text primitives                                                         *)
(***************************************************************************)
UpperCase ==
    <<"A","B","C","D","E","F","G","H","I","J","K","L","M",
      "N","O","P","Q","R","S","T","U","V","W","X","Y","Z">>
LowerCase ==
    <<"a","b","c","d","e","f","g","h","i","j","k","l","m",
      "n","o","p","q","r","s","t","u","v","w","x","y","z">>

\* char::to_lowercase on an ASCII character
LowerChar(c) ==
    IF \E i \in 1..26 : UpperCase[i] = c
    THEN LowerCase[CHOOSE i \in 1..26 : UpperCase[i] = c]
    ELSE c

StrHead(s) == SubSeq(s, 1, 1)
StrTail(s) == SubSeq(s, 2, Len(s))

RECURSIVE to_lowercase(_)
to_lowercase(s) ==
    IF s = "" THEN "" ELSE LowerChar(StrHead(s)) \o to_lowercase(StrTail(s))

\* str::contains(pattern): pattern occurs as a contiguous substring
contains(s, p) ==
    \E i \in 1..(Len(s) - Len(p) + 1) : SubSeq(s, i, i + Len(p) - 1) = p

White == {" ", "\t", "\n"}

\* str::split_whitespace: the maximal runs of non-whitespace, in order
RECURSIVE split_from(_, _, _)
split_from(s, i, word) ==
    IF i > Len(s)
    THEN IF word = "" THEN <<>> ELSE <<word>>
    ELSE IF SubSeq(s, i, i) \in White
         THEN (IF word = "" THEN <<>> ELSE <<word>>) \o split_from(s, i + 1, "")
         ELSE split_from(s, i + 1, word \o SubSeq(s, i, i))
split_whitespace(s) == split_from(s, 1, "")

\* str::trim
RECURSIVE trim_start(_)
trim_start(s) ==
    IF s # "" /\ StrHead(s) \in White THEN trim_start(StrTail(s)) ELSE s
RECURSIVE trim_end(_)
trim_end(s) ==
    IF s # "" /\ SubSeq(s, Len(s), Len(s)) \in White
    THEN trim_end(SubSeq(s, 1, Len(s) - 1)) ELSE s
trim(s) == trim_end(trim_start(s))

\* str::replace(from, to): every non-overlapping match, left to right
RECURSIVE replace(_, _, _)
replace(s, from, to) ==
    IF Len(s) < Len(from) \/ from = "" THEN s
    ELSE IF SubSeq(s, 1, Len(from)) = from
         THEN to \o replace(SubSeq(s, Len(from) + 1, Len(s)), from, to)
         ELSE StrHead(s) \o replace(StrTail(s), from, to)

\* SQLite's LIKE: % matches any run, _ any one character, ASCII letters
\* compare case-insensitively
RECURSIVE like(_, _)
like(s, p) ==
    IF p = "" THEN s = ""
    ELSE IF StrHead(p) = "%"
         THEN like(s, StrTail(p)) \/ (s # "" /\ like(StrTail(s), p))
         ELSE /\ s # ""
              /\ (StrHead(p) = "_" \/ LowerChar(StrHead(p)) = LowerChar(StrHead(s)))
              /\ like(StrTail(s), StrTail(p))

\* Vec::contains
vec_contains(v, x) == \E i \in 1..Len(v) : v[i] = x

(***************************************************************************)
(* Text Interpreter (MemoryService)                                        *)
(***************************************************************************)
contains_any(s, words) == \E w \in words : contains(s, w)

\* the system rule tried before the project rule
categorize_system_first(content, context) ==
    LET content_lower == to_lowercase(content) IN
    IF contains_any(content_lower,
           {"remind", "todo", "task", "due", "deadline", "schedule"})
    THEN "task"
    ELSE IF contains_any(content_lower,
           {"reminder", "remember", "don't forget", "make sure"})
    THEN "reminder"
    ELSE IF contains_any(content_lower,
           {"system", "computer", "terminal", "command"})
    THEN "system"
    ELSE IF contains_any(content_lower,
           {"project", "repository", "code", "development", "file", "system.rs"})
    THEN "project"
    ELSE IF contains_any(content_lower,
           {"conversation", "chat", "discussion", "talk"})
    THEN "conversation"
    ELSE IF contains_any(content_lower,
           {"preference", "setting", "config", "option"})
    THEN "preference"
    ELSE "general"

\* the reminder rule tried before the task rule
categorize_reminder_first(content, context) ==
    LET content_lower == to_lowercase(content) IN
    IF contains_any(content_lower,
           {"reminder", "remember", "don't forget", "make sure"})
    THEN "reminder"
    ELSE IF contains_any(content_lower,
           {"remind", "todo", "task", "due", "deadline", "schedule"})
    THEN "task"
    ELSE IF contains_any(content_lower,
           {"project", "repository", "code", "development", "file", "system.rs"})
    THEN "project"
    ELSE IF contains_any(content_lower,
           {"conversation", "chat", "discussion", "talk"})
    THEN "conversation"
    ELSE IF contains_any(content_lower,
           {"system", "computer", "terminal", "command"})
    THEN "system"
    ELSE IF contains_any(content_lower,
           {"preference", "setting", "config", "option"})
    THEN "preference"
    ELSE "general"

categorize_content(content, context) ==
    LET content_lower == to_lowercase(content) IN
    IF contains_any(content_lower,
           {"remind", "todo", "task", "due", "deadline", "schedule"})
    THEN "task"
    ELSE IF contains_any(content_lower,
           {"reminder", "remember", "don't forget", "make sure"})
    THEN "reminder"
    ELSE IF contains_any(content_lower,
           {"project", "repository", "code", "development", "file", "system.rs"})
    THEN "project"
    ELSE IF contains_any(content_lower,
           {"conversation", "chat", "discussion", "talk"})
    THEN "conversation"
    ELSE IF contains_any(content_lower,
           {"system", "computer", "terminal", "command"})
    THEN "system"
    ELSE IF contains_any(content_lower,
           {"preference", "setting", "config", "option"})
    THEN "preference"
    ELSE "general"

\* the rules tried from the low-urgency words up
determine_priority_low_first(content, context) ==
    LET content_lower == to_lowercase(content) IN
    IF contains_any(content_lower, {"sometime", "eventually", "no rush"})
    THEN 2
    ELSE IF contains_any(content_lower, {"later", "next week", "when you can"})
    THEN 3
    ELSE IF contains_any(content_lower, {"soon", "today", "this week", "deadline"})
    THEN 4
    ELSE IF contains_any(content_lower,
           {"urgent", "important", "critical", "asap", "emergency"})
    THEN 5
    ELSE 3

determine_priority(content, context) ==
    LET content_lower == to_lowercase(content) IN
    IF contains_any(content_lower,
           {"urgent", "important", "critical", "asap", "emergency"})
    THEN 5
    ELSE IF contains_any(content_lower, {"soon", "today", "this week", "deadline"})
    THEN 4
    ELSE IF contains_any(content_lower, {"later", "next week", "when you can"})
    THEN 3
    ELSE IF contains_any(content_lower, {"sometime", "eventually", "no rush"})
    THEN 2
    ELSE 3

stop_words ==
    {"the", "a", "an", "and", "or", "but", "in", "on", "at", "to", "for", "of",
     "with", "by", "is", "are", "was", "were", "be", "been", "being", "have",
     "has", "had", "do", "does", "did", "will", "would", "could", "should",
     "may", "might", "can", "this", "that", "these", "those", "i", "you", "he",
     "she", "it", "we", "they", "me", "him", "her", "us", "them", "my", "your",
     "his", "its", "our", "their", "mine", "yours", "hers", "ours", "theirs"}

extract_keywords(text) ==
    SelectSeq(split_whitespace(to_lowercase(text)),
              LAMBDA word : word \notin stop_words /\ Len(word) > 2)

(***************************************************************************)
(* Bounds of the model and the inputs drawn by the actions                 *)
(***************************************************************************)
MaxMemories == 2       \* rows ever inserted into table memory
MaxTasks == 2          \* rows ever inserted into table tasks
MaxTicks == 1          \* steps of the clock
MaxRows == 2           \* rows ever inserted into memory and tasks together
MaxContexts == 2       \* rows ever inserted into table session_context
MaxCommands == 2       \* rows ever inserted into table command_history
PoolSize == 2          \* connections of the pool
Epoch == 1719568800    \* 2024-06-28T10:00:00Z
Day == 86400

MemKeys == {"system.rs_changes", "notes"}
MemValues == {"Need changes to system.rs", "buy milk"}
Ttls == {-1, 0, 1}     \* expires_at of an inserted row, relative to now
Ties == {"rowid", "reverse"}

(***************************************************************************)
(* Query Builder: the dynamic SQL of db/queries.rs                         *)
(*                                                                         *)
(* A WHERE clause is the list of condition texts the code pushes, joined   *)
(* by AND; params_vec binds to the ? placeholders from left to right.      *)
(***************************************************************************)
has_placeholder(cond) ==
    cond \in {"key LIKE ?", "category = ?", "priority = ?",
              "(expires_at IS NULL OR expires_at > ?)",
              "status = ?", "session_id = ?", "context_key = ?"}

\* like() over the keys, values, categories and patterns the specifications
\* use, computed once
LikeKeys ==
    {"system.rs_changes", "notes", "fix", "Need changes to system.rs",
     "buy milk", "project", "general"}
LikePatterns ==
    {"%system.rs%", "%urgent%", "%fix%", "%milk%", "%notes%", "%MILK%",
     "%system%", "%general%"}
LikeCache == [k \in LikeKeys, p \in LikePatterns |-> like(k, p)]
key_like(key, pattern) ==
    IF key \in LikeKeys /\ pattern \in LikePatterns
    THEN LikeCache[key, pattern]
    ELSE like(key, pattern)

\* One condition on one row.  A number column compared with a bound text
\* takes the text's numeric value (column affinity): i32::to_string is the
\* canonical decimal, so the test is equality of the decimal texts.
eval_condition(row, cond, arg) ==
    CASE cond = "key LIKE ?" -> key_like(row.key, arg)
      [] cond = "category = ?" -> row.category = arg
      [] cond = "priority = ?" -> ToString(row.priority) = arg
      [] cond = "(expires_at IS NULL OR expires_at > ?)" ->
             row.expires_at = None \/ row.expires_at[1] > arg
      [] cond = "is_active = 1" -> row.is_active
      [] cond = "status = ?" -> row.status = arg
      [] cond = "status != 'completed'" -> row.status # "completed"
      [] cond = "session_id = ?" -> row.session_id = arg
      [] cond = "context_key = ?" -> row.context_key = arg

RECURSIVE eval_where(_, _, _)
eval_where(row, conditions, params) ==
    IF conditions = <<>> THEN TRUE
    ELSE IF has_placeholder(Head(conditions))
         THEN /\ eval_condition(row, Head(conditions), Head(params))
              /\ eval_where(row, Tail(conditions), Tail(params))
         ELSE /\ eval_condition(row, Head(conditions), None)
              /\ eval_where(row, Tail(conditions), params)

\* SELECT COUNT(*) FROM table WHERE conditions
count_rows(table, conditions, params) ==
    Cardinality({r \in table : eval_where(r, conditions, params)})

\* ORDER BY priority DESC, <time column> DESC.  SQL leaves the order of rows
\* equal in both columns to the query plan: tie is the plan's scan order.
order_before(a, b, time_col, tie) ==
    \/ a.priority > b.priority
    \/ a.priority = b.priority /\ a[time_col] > b[time_col]
    \/ /\ a.priority = b.priority
       /\ a[time_col] = b[time_col]
       /\ IF tie = "rowid" THEN a.id < b.id ELSE a.id > b.id

RECURSIVE order_by(_, _, _)
order_by(rows, time_col, tie) ==
    IF rows = {} THEN <<>>
    ELSE LET first == CHOOSE r \in rows :
                          \A o \in rows \ {r} : order_before(r, o, time_col, tie)
         IN <<first>> \o order_by(rows \ {first}, time_col, tie)

\* the first limit rows, and of those the rows after the first offset
limit_before_offset(rows, limit, offset) ==
    LET cut == IF limit < 0 \/ limit > Len(rows) THEN rows
               ELSE SubSeq(rows, 1, limit)
        off == IF offset < 0 THEN 0 ELSE offset
    IN SubSeq(cut, off + 1, Len(cut))

\* LIMIT limit OFFSET offset: a negative limit is no limit, a negative offset 0
limit_offset(rows, limit, offset) ==
    LET off == IF offset < 0 THEN 0 ELSE offset
        last == IF limit < 0 \/ off + limit > Len(rows) THEN Len(rows) ELSE off + limit
    IN SubSeq(rows, off + 1, last)

\* SELECT ... FROM table WHERE conditions ORDER BY ... LIMIT ? OFFSET ?
select_rows(table, conditions, params, time_col, tie, limit, offset) ==
    limit_offset(order_by({r \in table : eval_where(r, conditions, params)},
                          time_col, tie),
                 limit, offset)

(***************************************************************************)
(* Timestamps.  A DATETIME column holds the text to_rfc3339 wrote, modelled *)
(* by its seconds since 1970, or a text no RFC3339 parser accepts.          *)
(***************************************************************************)
\* a stored text that is no timestamp and sorts before every timestamp (the
\* empty text)
Malformed == -1

\* DateTime::parse_from_rfc3339(..).unwrap_or_else(|_| Utc::now().into())
parse_or_now(column, t) == IF column = Malformed THEN t ELSE column

\* Option<String>::and_then(|s| DateTime::parse_from_rfc3339(&s).ok())
parse_or_none(column) ==
    IF column = None \/ column = Some(Malformed) THEN None ELSE column

(***************************************************************************)
(* Table memory                                                            *)
(***************************************************************************)
\* INSERT OR IGNORE: the row already holding the key is kept
insert_or_ignore_memory(table, m, id) ==
    IF \E r \in table : r.key = m.key THEN table
    ELSE table \cup {[m EXCEPT !.id = id]}

\* ON CONFLICT(key) DO UPDATE SET value, updated_at: the row already holding
\* the key keeps its other columns
upsert_value_of_memory(table, m, id) ==
    IF \E r \in table : r.key = m.key
    THEN {IF r.key = m.key
          THEN [r EXCEPT !.value = m.value, !.updated_at = m.updated_at]
          ELSE r : r \in table}
    ELSE table \cup {[m EXCEPT !.id = id]}

\* INSERT OR REPLACE INTO memory: the row holding the same UNIQUE key is
\* deleted and the new row gets the next AUTOINCREMENT id
insert_enhanced_memory(table, m, id) ==
    {r \in table : r.key # m.key} \cup {[m EXCEPT !.id = id]}

\* the active filter pushed only in the branch that filters expired rows
memory_conditions_active_in_else(query) ==
    (IF query.key # None THEN <<"key LIKE ?">> ELSE <<>>)
    \o (IF query.category # None THEN <<"category = ?">> ELSE <<>>)
    \o (IF query.priority # None THEN <<"priority = ?">> ELSE <<>>)
    \o (IF unwrap_or(query.include_expired, FALSE) THEN <<>>
        ELSE <<"(expires_at IS NULL OR expires_at > ?)", "is_active = 1">>)

\* the conditions and bound values get_enhanced_memories builds from a query
memory_conditions(query) ==
    (IF query.key # None THEN <<"key LIKE ?">> ELSE <<>>)
    \o (IF query.category # None THEN <<"category = ?">> ELSE <<>>)
    \o (IF query.priority # None THEN <<"priority = ?">> ELSE <<>>)
    \o (IF unwrap_or(query.include_expired, FALSE) THEN <<>>
        ELSE <<"(expires_at IS NULL OR expires_at > ?)">>)
    \o <<"is_active = 1">>

memory_params(query, t) ==
    (IF query.key # None THEN <<"%" \o query.key[1] \o "%">> ELSE <<>>)
    \o (IF query.category # None THEN <<query.category[1]>> ELSE <<>>)
    \o (IF query.priority # None THEN <<ToString(query.priority[1])>> ELSE <<>>)
    \o (IF unwrap_or(query.include_expired, FALSE) THEN <<>> ELSE <<t>>)

\* the count taken without the expiry filter of the page statement
memory_total_without_expiry(table, query, t) ==
    count_rows(table,
               memory_conditions([query EXCEPT !.include_expired = Some(TRUE)]),
               memory_params([query EXCEPT !.include_expired = Some(TRUE)], t))

\* the count statement of get_enhanced_memories
memory_total(table, query, t) ==
    count_rows(table, memory_conditions(query), memory_params(query, t))

\* the closure of query_map in get_enhanced_memories: a row as a Memory
memory_from_row(row, t) ==
    [row EXCEPT !.created_at = parse_or_now(@, t),
                !.updated_at = parse_or_now(@, t),
                !.expires_at = parse_or_none(@)]

\* the page statement of get_enhanced_memories
memory_page(table, query, t, tie) ==
    LET rows == select_rows(table, memory_conditions(query),
                            memory_params(query, t), "updated_at", tie,
                            unwrap_or(query.limit, 50),
                            unwrap_or(query.offset, 0))
    IN [i \in 1..Len(rows) |-> memory_from_row(rows[i], t)]

get_enhanced_memories(table, query, t, tie) ==
    [memories |-> memory_page(table, query, t, tie),
     total |-> memory_total(table, query, t)]

\* SELECT ... FROM memory WHERE key = ?, as a MemoryEntry
get_memory_by_key(table, key, t) ==
    IF \E r \in table : r.key = key
    THEN LET r == CHOOSE r \in table : r.key = key
         IN Some([id |-> r.id, key |-> r.key, value |-> r.value,
                  metadata |-> r.metadata,
                  created_at |-> parse_or_now(r.created_at, t),
                  updated_at |-> parse_or_now(r.updated_at, t)])
    ELSE None

\* the rows search_memories selects: the pattern in key, value or category,
\* whatever is_active and expires_at
search_matches(r, search_pattern) ==
    \/ key_like(r.key, search_pattern)
    \/ key_like(r.value, search_pattern)
    \/ key_like(r.category, search_pattern)

\* db::queries::search_memories: the closure unwraps the parse of a non-NULL
\* expires_at, so a returned row whose expires_at is no timestamp panics
search_memories(table, query, t, tie) ==
    LET search_pattern == "%" \o query \o "%"
        found == {r \in table : search_matches(r, search_pattern)}
        rows == limit_offset(order_by(found, "updated_at", tie), 50, 0)
    IN IF \E i \in 1..Len(rows) : rows[i].expires_at = Some(Malformed)
       THEN [result |-> "Panic", memories |-> <<>>, total |-> 0]
       ELSE [result |-> "Ok",
             memories |-> [i \in 1..Len(rows) |->
                              [rows[i] EXCEPT
                                  !.created_at = parse_or_now(@, t),
                                  !.updated_at = parse_or_now(@, t)]],
             total |-> Cardinality(found)]

(***************************************************************************)
(* Operations on the memory table, as the steps of the state machine       *)
(***************************************************************************)
Contexts == {None, Some("leara project")}
NoResp == [op |-> "none"]

\* Pool::get through MemoryService::get_conn: a connection or an error
PoolResults == {"Ok", "Err"}

\* the history of writes: the value each key was last written with
record_write(key, value) == written' = [written EXCEPT ![key] = Some(value)]

\* MemoryService::store_memory
store_memory(key, value, context, priority, conn) ==
    LET category == categorize_content(value, context)
        prio == IF priority = None THEN determine_priority(value, context)
                ELSE priority[1]
        m == [id |-> 0, key |-> key, value |-> value, category |-> category,
              priority |-> prio,
              metadata |-> Some([context |-> context, auto_categorized |-> TRUE,
                                 stored_at |-> now]),
              created_at |-> now, updated_at |-> now,
              expires_at |-> None, is_active |-> TRUE]
    IN IF conn = "Err"
       THEN /\ resp' = [op |-> "store_memory", key |-> key, result |-> "Err"]
            /\ UNCHANGED <<memory, tasks, session_context, seq, now, written, frame>>
       ELSE /\ seq.memory < MaxMemories
            /\ memory' = insert_enhanced_memory(memory, m, seq.memory + 1)
            /\ seq' = [seq EXCEPT !.memory = @ + 1]
            /\ record_write(key, value)
            /\ resp' = [op |-> "store_memory", key |-> key, result |-> "Ok"]
            /\ UNCHANGED <<tasks, session_context, now, frame>>

\* db::queries::insert_enhanced_memory called with a Memory of the caller's
\* making: any category, expiry and active flag
insert_memory_row(key, value, category, priority, expires_at, is_active) ==
    LET m == [id |-> 0, key |-> key, value |-> value, category |-> category,
              priority |-> priority, metadata |-> None,
              created_at |-> now, updated_at |-> now,
              expires_at |-> expires_at, is_active |-> is_active]
    IN /\ seq.memory < MaxMemories
       /\ memory' = insert_enhanced_memory(memory, m, seq.memory + 1)
       /\ seq' = [seq EXCEPT !.memory = @ + 1]
       /\ record_write(key, value)
       /\ resp' = [op |-> "insert_enhanced_memory", key |-> key, result |-> "Ok"]
       /\ UNCHANGED <<tasks, session_context, now, frame>>

\* db::queries::get_enhanced_memories on the caller's query
query_memories(query, tie) ==
    /\ resp' = [op |-> "get_enhanced_memories", query |-> query, at |-> now,
                result |-> get_enhanced_memories(memory, query, now, tie)]
    /\ UNCHANGED <<memory, tasks, session_context, seq, now, written, frame>>

\* db::queries::get_memory_by_key
read_memory_by_key(key) ==
    /\ resp' = [op |-> "get_memory_by_key", key |-> key, at |-> now,
                result |-> get_memory_by_key(memory, key, now)]
    /\ UNCHANGED <<memory, tasks, session_context, seq, now, written, frame>>

\* db::queries::search_memories on the caller's query
search(query, tie) ==
    /\ resp' = [op |-> "search_memories", query |-> query, at |-> now,
                result |-> search_memories(memory, query, now, tie)]
    /\ UNCHANGED <<memory, tasks, session_context, seq, now, written, frame>>

\* MemoryService::categorize_content on a text
categorize(content, context) ==
    /\ resp' = [op |-> "categorize_content", content |-> content,
                context |-> context,
                category |-> categorize_content(content, context)]
    /\ UNCHANGED <<memory, tasks, session_context, seq, now, written, frame>>

\* MemoryService::determine_priority on a text
prioritize(content, context) ==
    /\ resp' = [op |-> "determine_priority", content |-> content,
                context |-> context,
                priority |-> determine_priority(content, context)]
    /\ UNCHANGED <<memory, tasks, session_context, seq, now, written, frame>>

\* a second passes between two operations
tick_second ==
    /\ now - Epoch < MaxTicks
    /\ now' = now + 1
    /\ UNCHANGED <<memory, tasks, session_context, seq, resp, written, frame>>

(***************************************************************************)
(* Table tasks                                                             *)
(***************************************************************************)
\* the time left as it is
same_time(t) == t

\* DateTime::date_naive().and_hms_opt(18, 0, 0).unwrap().and_utc(): 18:00:00
\* UTC of the calendar day of t
at_evening(t) == (t \div Day) * Day + 18 * 3600

\* MemoryService::parse_task_input: (title, description, priority, due_date)
parse_task_input(input, t) ==
    LET input_lower == to_lowercase(input)
        priority ==
            IF contains(input_lower, "urgent") \/ contains(input_lower, "critical")
            THEN 5
            ELSE IF contains(input_lower, "important")
                    \/ contains(input_lower, "high priority")
            THEN 4
            ELSE IF contains(input_lower, "low priority") THEN 2
            ELSE 3
        due_date ==
            IF contains(input_lower, "today") THEN Some(at_evening(t))
            ELSE IF contains(input_lower, "tomorrow") THEN Some(at_evening(t + Day))
            ELSE IF contains(input_lower, "this week") THEN Some(t + 7 * Day)
            ELSE IF contains(input_lower, "next week") THEN Some(t + 14 * Day)
            ELSE None
        t1 == replace(replace(replace(input, "urgent", ""), "important", ""),
                      "critical", "")
        t2 == replace(replace(replace(replace(t1, "today", ""), "tomorrow", ""),
                              "this week", ""), "next week", "")
    IN [title |-> trim(t2), description |-> None,
        priority |-> priority, due_date |-> due_date]

\* Vec<&str>::join(",")
RECURSIVE join(_, _)
join(v, sep) ==
    IF v = <<>> THEN ""
    ELSE IF Len(v) = 1 THEN v[1]
    ELSE v[1] \o sep \o join(Tail(v), sep)

\* MemoryService::extract_tags
extract_tags(text) ==
    LET text_lower == to_lowercase(text)
        tags ==
            (IF contains(text_lower, "rust") \/ contains(text_lower, "cargo")
             THEN <<"rust">> ELSE <<>>)
            \o (IF contains(text_lower, "system.rs") \/ contains(text_lower, "system")
                THEN <<"system">> ELSE <<>>)
            \o (IF contains(text_lower, "leara") THEN <<"leara">> ELSE <<>>)
            \o (IF contains(text_lower, "project") THEN <<"project">> ELSE <<>>)
    IN IF tags = <<>> THEN None ELSE Some(join(tags, ","))

\* INSERT INTO tasks: completed_at is not among the columns and stays NULL
insert_task(table, task, id) ==
    table \cup {[task EXCEPT !.id = id, !.completed_at = None]}

\* UPDATE tasks SET status = ?, completed_at = ?, updated_at = ? WHERE id = ?
\* for "completed"; UPDATE tasks SET status = ?, updated_at = ? WHERE id = ?
\* for every other status
\* the UPDATE without its WHERE clause
update_every_task_status(table, task_id, status, t) ==
    IF status = "completed"
    THEN {[r EXCEPT !.status = status, !.completed_at = Some(t),
                    !.updated_at = t] : r \in table}
    ELSE {[r EXCEPT !.status = status, !.updated_at = t] : r \in table}

update_task_status(table, task_id, status, t) ==
    IF status = "completed"
    THEN {IF r.id = task_id
          THEN [r EXCEPT !.status = status, !.completed_at = Some(t),
                         !.updated_at = t]
          ELSE r : r \in table}
    ELSE {IF r.id = task_id
          THEN [r EXCEPT !.status = status, !.updated_at = t]
          ELSE r : r \in table}

\* completed tasks included unless the caller excludes them
task_conditions_include_by_default(query) ==
    (IF query.status # None THEN <<"status = ?">> ELSE <<>>)
    \o (IF query.priority # None THEN <<"priority = ?">> ELSE <<>>)
    \o (IF ~unwrap_or(query.include_completed, TRUE)
        THEN <<"status != 'completed'">> ELSE <<>>)

task_conditions(query) ==
    (IF query.status # None THEN <<"status = ?">> ELSE <<>>)
    \o (IF query.priority # None THEN <<"priority = ?">> ELSE <<>>)
    \o (IF ~unwrap_or(query.include_completed, FALSE)
        THEN <<"status != 'completed'">> ELSE <<>>)

task_params(query) ==
    (IF query.status # None THEN <<query.status[1]>> ELSE <<>>)
    \o (IF query.priority # None THEN <<ToString(query.priority[1])>> ELSE <<>>)

\* the count statement of get_tasks
\* the count without its WHERE clause
task_total_of_every_row(table, query) == Cardinality(table)

task_total(table, query) ==
    count_rows(table, task_conditions(query), task_params(query))

\* the closure of query_map in get_tasks: a row as a Task
task_from_row(row, t) ==
    [row EXCEPT !.due_date = parse_or_none(@),
                !.created_at = parse_or_now(@, t),
                !.updated_at = parse_or_now(@, t),
                !.completed_at = parse_or_none(@)]

\* the page statement of get_tasks
task_page(table, query, t, tie) ==
    LET rows == select_rows(table, task_conditions(query), task_params(query),
                            "created_at", tie,
                            unwrap_or(query.limit, 50),
                            unwrap_or(query.offset, 0))
    IN [i \in 1..Len(rows) |-> task_from_row(rows[i], t)]

get_tasks(table, query, t, tie) ==
    [tasks |-> task_page(table, query, t, tie),
     total |-> task_total(table, query)]

(***************************************************************************)
(* Operations on the tasks table                                           *)
(***************************************************************************)
\* MemoryService::create_task_from_input
create_task_from_input(input, context, conn) ==
    LET parsed == parse_task_input(input, now)
        task == [id |-> 0, title |-> parsed.title,
                 description |-> parsed.description, status |-> "pending",
                 priority |-> parsed.priority, due_date |-> parsed.due_date,
                 created_at |-> now, updated_at |-> now, completed_at |-> None,
                 context |-> context, tags |-> extract_tags(input)]
    IN IF conn = "Err"
       THEN /\ resp' = [op |-> "create_task_from_input", input |-> input,
                        result |-> "Err"]
            /\ UNCHANGED <<memory, tasks, session_context, seq, now, written, frame>>
       ELSE /\ seq.tasks < MaxTasks
            /\ tasks' = insert_task(tasks, task, seq.tasks + 1)
            /\ seq' = [seq EXCEPT !.tasks = @ + 1]
            /\ resp' = [op |-> "create_task_from_input", input |-> input,
                        result |-> "Ok", task |-> task]
            /\ UNCHANGED <<memory, session_context, now, written, frame>>

\* db::queries::update_task_status
set_task_status(task_id, status) ==
    /\ tasks' = update_task_status(tasks, task_id, status, now)
    /\ resp' = [op |-> "update_task_status", task_id |-> task_id,
                status |-> status, result |-> "Ok"]
    /\ UNCHANGED <<memory, session_context, seq, now, written, frame>>

\* db::queries::get_tasks on the caller's query
query_tasks(query, tie) ==
    /\ resp' = [op |-> "get_tasks", query |-> query, at |-> now,
                result |-> get_tasks(tasks, query, now, tie)]
    /\ UNCHANGED <<memory, tasks, session_context, seq, now, written, frame>>

\* MemoryService::get_pending_tasks
pending_tasks_query ==
    [status |-> Some("pending"), priority |-> None, limit |-> Some(50),
     offset |-> Some(0), include_completed |-> Some(FALSE)]

get_pending_tasks(include_overdue, conn, tie) ==
    /\ resp' = [op |-> "get_pending_tasks",
                result |-> IF conn = "Err" THEN "Err" ELSE "Ok",
                tasks |-> IF conn = "Err" THEN <<>>
                          ELSE get_tasks(tasks, pending_tasks_query,
                                         now, tie).tasks]
    /\ UNCHANGED <<memory, tasks, session_context, seq, now, written, frame>>

(***************************************************************************)
(* The text functions over the texts the specifications use, computed      *)
(* once: keywords_of, category_of and lower_of are extract_keywords,       *)
(* categorize_content and to_lowercase, read from a table where the table  *)
(* has the text.                                                           *)
(***************************************************************************)
CachedTexts ==
    {"system.rs_changes", "notes", "fix", "Need changes to system.rs",
     "buy milk", "urgent system.rs fix", "milk milk milk milk milk milk",
     "urgent", "system.rs", "milk"} \cup
    {"general", "conversation", "task", "reminder", "preference", "context",
     "system", "project"}
KeywordCache == [t \in CachedTexts |-> extract_keywords(t)]
CategoryCache == [t \in CachedTexts |-> categorize_content(t, None)]
LowerCache == [t \in CachedTexts |-> to_lowercase(t)]
keywords_of(text) ==
    IF text \in CachedTexts THEN KeywordCache[text] ELSE extract_keywords(text)
category_of(text) ==
    IF text \in CachedTexts THEN CategoryCache[text]
    ELSE categorize_content(text, None)
lower_of(text) ==
    IF text \in CachedTexts THEN LowerCache[text] ELSE to_lowercase(text)

(***************************************************************************)
(* Relevance Ranker and search                                             *)
(***************************************************************************)
StandardCategories ==
    {"general", "conversation", "task", "reminder", "preference", "context",
     "system", "project"}

\* MemoryCategory::from_str: the variant of a lower-cased standard name, or
\* Custom with the text as given
MemoryCategory_from_str(s) ==
    IF lower_of(s) \in StandardCategories
    THEN [variant |-> lower_of(s), name |-> ""]
    ELSE [variant |-> "custom", name |-> s]

\* MemoryService::calculate_relevance_score, in tenths: every term of the
\* f64 sum is a multiple of 0.1, so the order of two scores is the order of
\* their tenths
\* the weights of a value match and of a key match exchanged
calculate_relevance_score_value_first(m, query, t) ==
    LET query_keywords == keywords_of(query)
        memory_keywords == keywords_of(m.value)
        key_keywords == keywords_of(m.key)
        matches(i) ==
            (IF vec_contains(memory_keywords, query_keywords[i]) THEN 150 ELSE 0)
            + (IF vec_contains(key_keywords, query_keywords[i]) THEN 100 ELSE 0)
        RECURSIVE sum_matches(_)
        sum_matches(i) == IF i = 0 THEN 0 ELSE matches(i) + sum_matches(i - 1)
        category == MemoryCategory_from_str(m.category)
        query_category == MemoryCategory_from_str(category_of(query))
        days_old == (t - m.updated_at) \div Day
        recency == IF 30 - days_old > 0 THEN 30 - days_old ELSE 0
    IN sum_matches(Len(query_keywords))
       + (IF category = query_category THEN 50 ELSE 0)
       + 10 * m.priority
       + recency

calculate_relevance_score(m, query, t) ==
    LET query_keywords == keywords_of(query)
        memory_keywords == keywords_of(m.value)
        key_keywords == keywords_of(m.key)
        matches(i) ==
            (IF vec_contains(memory_keywords, query_keywords[i]) THEN 100 ELSE 0)
            + (IF vec_contains(key_keywords, query_keywords[i]) THEN 150 ELSE 0)
        RECURSIVE sum_matches(_)
        sum_matches(i) == IF i = 0 THEN 0 ELSE matches(i) + sum_matches(i - 1)
        category == MemoryCategory_from_str(m.category)
        query_category == MemoryCategory_from_str(category_of(query))
        days_old == (t - m.updated_at) \div Day
        recency == IF 30 - days_old > 0 THEN 30 - days_old ELSE 0
    IN sum_matches(Len(query_keywords))
       + (IF category = query_category THEN 50 ELSE 0)
       + 10 * m.priority
       + recency

\* sort_by with b_score.partial_cmp(&a_score) is a stable sort, highest score
\* first; entries are [score, m]
RECURSIVE sort_ascending(_)
sort_ascending(scored) ==
    IF scored = <<>> THEN <<>>
    ELSE LET rest == sort_ascending(Tail(scored))
             x == Head(scored)
             k == Cardinality({i \in 1..Len(rest) : rest[i].score < x.score})
         IN SubSeq(rest, 1, k) \o <<x>> \o SubSeq(rest, k + 1, Len(rest))

RECURSIVE sort_by_relevance(_)
sort_by_relevance(scored) ==
    IF scored = <<>> THEN <<>>
    ELSE LET rest == sort_by_relevance(Tail(scored))
             x == Head(scored)
             k == Cardinality({i \in 1..Len(rest) : rest[i].score > x.score})
         IN SubSeq(rest, 1, k) \o <<x>> \o SubSeq(rest, k + 1, Len(rest))

\* Vec::truncate(len)
truncate(v, len) == IF len < Len(v) THEN SubSeq(v, 1, len) ELSE v

\* one entry more than the limit
apply_limit_inclusive(memories, limit) ==
    LET lim == unwrap_or(limit, 10)
    IN IF lim < 0 THEN memories ELSE truncate(memories, lim + 1)

\* limit.unwrap_or(10), then truncate(limit as usize): a negative i32 becomes
\* a usize above every length
apply_limit(memories, limit) ==
    LET lim == unwrap_or(limit, 10)
    IN IF lim < 0 THEN memories ELSE truncate(memories, lim)

\* the category pass: one query per keyword, by the keyword's category
RECURSIVE category_pass(_, _, _, _)
category_pass(table, keywords, t, tie) ==
    IF keywords = <<>> THEN <<>>
    ELSE get_enhanced_memories(table,
             [key |-> None,
              category |-> Some(category_of(Head(keywords))),
              priority |-> None, limit |-> Some(10), offset |-> Some(0),
              include_expired |-> Some(FALSE)], t, tie).memories
         \o category_pass(table, Tail(keywords), t, tie)

\* the key pass: one query per keyword, the keyword as a key substring
RECURSIVE key_pass(_, _, _, _)
key_pass(table, keywords, t, tie) ==
    IF keywords = <<>> THEN <<>>
    ELSE get_enhanced_memories(table,
             [key |-> Some(Head(keywords)), category |-> None,
              priority |-> None, limit |-> Some(5), offset |-> Some(0),
              include_expired |-> Some(FALSE)], t, tie).memories
         \o key_pass(table, Tail(keywords), t, tie)

\* the Vec find_relevant_memories returns on Ok
relevant_memories(table, query, limit, t, tie) ==
    LET keywords == keywords_of(query)
        fetched == category_pass(table, keywords, t, tie)
                   \o key_pass(table, keywords, t, tie)
        scored == [i \in 1..Len(fetched) |->
                      [score |-> calculate_relevance_score(fetched[i], query, t),
                       m |-> fetched[i]]]
        sorted == sort_by_relevance(scored)
    IN apply_limit([i \in 1..Len(sorted) |-> sorted[i].m], limit)

\* MemoryService::find_relevant_memories
find_relevant_memories(query, limit, conn, tie) ==
    /\ resp' = [op |-> "find_relevant_memories", query |-> query,
                limit |-> limit, at |-> now,
                result |-> IF conn = "Err" THEN "Err" ELSE "Ok",
                memories |-> IF conn = "Err" THEN <<>>
                             ELSE relevant_memories(memory, query, limit, now, tie)]
    /\ UNCHANGED <<memory, tasks, session_context, seq, now, written, frame>>

\* fifteen hours pass between two operations
tick_hours ==
    /\ now - Epoch < MaxTicks * 15 * 3600
    /\ now' = now + 15 * 3600
    /\ UNCHANGED <<memory, tasks, session_context, seq, resp, written, frame>>

\* thirty days pass between two operations
tick_month ==
    /\ now - Epoch < MaxTicks * 30 * Day
    /\ now' = now + 30 * Day
    /\ UNCHANGED <<memory, tasks, session_context, seq, resp, written, frame>>

(***************************************************************************)
(* Summary                                                                 *)
(***************************************************************************)

\* format!("{:02}", n)
two_digits(n) == IF n < 10 THEN "0" \o ToString(n) ELSE ToString(n)

\* DateTime<Utc>::format("%Y-%m-%d"): the civil date of a time in seconds
\* since 1970-01-01T00:00:00Z
format_date(t) ==
    LET z == t \div Day + 719468
        era == z \div 146097
        doe == z - era * 146097
        yoe == (doe - doe \div 1460 + doe \div 36524 - doe \div 146096) \div 365
        doy == doe - (365 * yoe + yoe \div 4 - yoe \div 100)
        mp == (5 * doy + 2) \div 153
        d == doy - (153 * mp + 2) \div 5 + 1
        m == IF mp < 10 THEN mp + 3 ELSE mp - 9
        y == yoe + era * 400 + (IF m <= 2 THEN 1 ELSE 0)
    IN ToString(y) \o "-" \o two_digits(m) \o "-" \o two_digits(d)

\* DateTime<Utc>::to_rfc3339 of a whole second: date, time of day, +00:00
to_rfc3339(t) ==
    format_date(t) \o "T" \o two_digits((t % Day) \div 3600) \o ":"
    \o two_digits((t % 3600) \div 60) \o ":" \o two_digits(t % 60) \o "+00:00"

\* the query get_memory_summary reads memories with
summary_memory_query ==
    [key |-> None, category |-> None, priority |-> Some(4), limit |-> Some(5),
     offset |-> Some(0), include_expired |-> Some(FALSE)]

RECURSIVE memory_lines(_)
memory_lines(memories) ==
    IF memories = <<>> THEN ""
    ELSE "- " \o Head(memories).key \o ": " \o Head(memories).value \o "\n"
         \o memory_lines(Tail(memories))

RECURSIVE task_lines(_)
task_lines(pending) ==
    IF pending = <<>> THEN ""
    ELSE LET task == Head(pending)
             due_info == IF task.due_date = None THEN ""
                         ELSE " (due: " \o format_date(task.due_date[1]) \o ")"
         IN "- " \o task.title \o " [Priority: " \o ToString(task.priority)
            \o "]" \o due_info \o "\n" \o task_lines(Tail(pending))

\* the String get_memory_summary returns on Ok; pending is the result of the
\* connection get_pending_tasks asks the pool for, its error skips the tasks
memory_summary(mem_table, task_table, t, pending, tie) ==
    LET memories == get_enhanced_memories(mem_table, summary_memory_query,
                                          t, tie).memories
        found == IF pending = "Err" THEN <<>>
                 ELSE get_tasks(task_table, pending_tasks_query, t, tie).tasks
        summary ==
            (IF memories = <<>> THEN ""
             ELSE "Recent important memories:\n" \o memory_lines(memories) \o "\n")
            \o (IF found = <<>> THEN ""
                ELSE "Pending tasks:\n" \o task_lines(found))
    IN IF summary = "" THEN "No recent memories or pending tasks found."
       ELSE summary

\* MemoryService::get_memory_summary
get_memory_summary(conn, pending, tie) ==
    /\ resp' = [op |-> "get_memory_summary", conn |-> conn,
                result |-> IF conn = "Err" THEN "Err" ELSE "Ok",
                pending |-> pending, at |-> now,
                text |-> IF conn = "Err" THEN ""
                         ELSE memory_summary(memory, tasks, now, pending, tie)]
    /\ UNCHANGED <<memory, tasks, session_context, seq, now, written, frame>>

(***************************************************************************)
(* Table session_context                                                   *)
(***************************************************************************)
\* INSERT OR REPLACE INTO session_context: the row holding the same
\* UNIQUE(session_id, context_key) is deleted, the new row gets the next id
insert_session_context(table, context, id) ==
    {r \in table : ~(r.session_id = context.session_id
                     /\ r.context_key = context.context_key)}
    \cup {[context EXCEPT !.id = id]}

\* the bound values get_session_contexts collects from a query
session_params(query) ==
    (IF query.session_id # None THEN <<query.session_id[1]>> ELSE <<>>)
    \o (IF query.context_key # None THEN <<query.context_key[1]>> ELSE <<>>)

\* db::queries::get_session_contexts: the count runs only when no value is
\* bound, and the contexts are an empty Vec
get_session_contexts(table, query) ==
    [contexts |-> <<>>,
     total |-> IF session_params(query) = <<>>
               THEN count_rows(table, <<>>, <<>>) ELSE 0]

\* MemoryService::store_session_context
store_session_context(session_id, context_key, context_value, conn) ==
    LET context == [id |-> 0, session_id |-> session_id,
                    context_key |-> context_key,
                    context_value |-> context_value,
                    created_at |-> now, updated_at |-> now]
    IN IF conn = "Err"
       THEN /\ resp' = [op |-> "store_session_context", conn |-> conn,
                        context |-> context, result |-> "Err"]
            /\ UNCHANGED <<memory, tasks, session_context, seq, now, written, frame>>
       ELSE /\ seq.session_context < MaxContexts
            /\ session_context' =
                   insert_session_context(session_context, context,
                                          seq.session_context + 1)
            /\ seq' = [seq EXCEPT !.session_context = @ + 1]
            /\ resp' = [op |-> "store_session_context", conn |-> conn,
                        context |-> context, result |-> "Ok"]
            /\ UNCHANGED <<memory, tasks, now, written, frame>>

\* db::queries::store_session_context: a plain INSERT INTO session_context,
\* which the UNIQUE(session_id, context_key) constraint fails for a pair
\* already stored; the failed statement changes nothing
queries_store_session_context(request) ==
    LET context == [id |-> 0, session_id |-> request.session_id,
                    context_key |-> request.context_key,
                    context_value |-> request.context_value,
                    created_at |-> now, updated_at |-> now]
    IN IF \E r \in session_context :
              /\ r.session_id = context.session_id
              /\ r.context_key = context.context_key
       THEN /\ resp' = [op |-> "queries::store_session_context", conn |-> "Ok",
                        context |-> context, result |-> "Err"]
            /\ UNCHANGED <<memory, tasks, session_context, seq, now, written, frame>>
       ELSE /\ seq.session_context < MaxContexts
            /\ session_context' =
                   session_context
                       \cup {[context EXCEPT !.id = seq.session_context + 1]}
            /\ seq' = [seq EXCEPT !.session_context = @ + 1]
            /\ resp' = [op |-> "queries::store_session_context", conn |-> "Ok",
                        context |-> context, result |-> "Ok"]
            /\ UNCHANGED <<memory, tasks, now, written, frame>>

\* MemoryService::get_session_context
get_session_context(session_id, conn) ==
    LET query == [session_id |-> Some(session_id), context_key |-> None,
                  limit |-> Some(50), offset |-> Some(0)]
    IN /\ resp' = [op |-> "get_session_context", session_id |-> session_id,
                   result |-> IF conn = "Err" THEN "Err" ELSE "Ok",
                   contexts |-> IF conn = "Err" THEN <<>>
                                ELSE get_session_contexts(session_context,
                                                          query).contexts]
       /\ UNCHANGED <<memory, tasks, session_context, seq, now, written, frame>>

\* ORDER BY updated_at DESC, rows of one updated_at in the plan's order
RECURSIVE order_by_updated_at(_, _)
order_by_updated_at(rows, tie) ==
    IF rows = {} THEN <<>>
    ELSE LET first == CHOOSE r \in rows : \A o \in rows \ {r} :
                          \/ r.updated_at > o.updated_at
                          \/ /\ r.updated_at = o.updated_at
                             /\ IF tie = "rowid" THEN r.id < o.id ELSE r.id > o.id
         IN <<first>> \o order_by_updated_at(rows \ {first}, tie)

\* db::queries::get_session_context: the rows of a session and their count
queries_get_session_context(table, session_id, t, tie) ==
    LET found == {r \in table : r.session_id = session_id}
        rows == order_by_updated_at(found, tie)
    IN [contexts |-> [i \in 1..Len(rows) |->
                         [rows[i] EXCEPT !.created_at = parse_or_now(@, t),
                                         !.updated_at = parse_or_now(@, t)]],
        total |-> Cardinality(found)]

\* db::queries::get_session_context on the caller's session
query_session_context(session_id, tie) ==
    /\ resp' = [op |-> "queries::get_session_context",
                session_id |-> session_id, at |-> now,
                result |-> queries_get_session_context(session_context,
                                                       session_id, now, tie)]
    /\ UNCHANGED <<memory, tasks, session_context, seq, now, written, frame>>

\* The DATETIME columns take any text: a writer other than this program
\* leaves a text that is no timestamp in one timestamp column of a stored row
foreign_write(table_name, id, column) ==
    /\ table_name = "memory" =>
           /\ column \in {"created_at", "updated_at", "expires_at"}
           /\ \E r \in memory : r.id = id
           /\ memory' = {IF r.id # id THEN r
                         ELSE IF column = "expires_at"
                         THEN [r EXCEPT !.expires_at = Some(Malformed)]
                         ELSE [r EXCEPT ![column] = Malformed] : r \in memory}
           /\ UNCHANGED <<tasks, session_context, frame>>
    /\ table_name = "tasks" =>
           /\ column \in {"created_at", "updated_at", "due_date", "completed_at"}
           /\ \E r \in tasks : r.id = id
           /\ tasks' = {IF r.id # id THEN r
                        ELSE IF column \in {"due_date", "completed_at"}
                        THEN [r EXCEPT ![column] = Some(Malformed)]
                        ELSE [r EXCEPT ![column] = Malformed] : r \in tasks}
           /\ UNCHANGED <<memory, session_context, frame>>
    /\ table_name = "session_context" =>
           /\ column \in {"created_at", "updated_at"}
           /\ \E r \in session_context : r.id = id
           /\ session_context' = {IF r.id # id THEN r
                                  ELSE [r EXCEPT ![column] = Malformed] :
                                      r \in session_context}
           /\ UNCHANGED <<memory, tasks, frame>>
    /\ resp' = [op |-> "foreign_write", result |-> "Ok"]
    /\ UNCHANGED <<seq, now, written, frame>>

\* db::queries::get_session_contexts on the caller's query
query_session_contexts(query) ==
    /\ resp' = [op |-> "get_session_contexts", query |-> query,
                result |-> get_session_contexts(session_context, query)]
    /\ UNCHANGED <<memory, tasks, session_context, seq, now, written, frame>>

(***************************************************************************)
(* Specifications                                                          *)
(***************************************************************************)
\* the callers of the service and a caller with no call in flight
Callers == {"a", "b"}
NoCall == [pc |-> "idle"]

Init ==
    /\ memory = {}
    /\ tasks = {}
    /\ session_context = {}
    /\ seq = [memory |-> 0, tasks |-> 0, session_context |-> 0]
    /\ now = Epoch
    /\ resp = NoResp
    /\ written = [k \in MemKeys \cup {"fix"} |-> None]
    /\ command_history = <<>>
    /\ pool = PoolSize
    /\ calls = [c \in Callers |-> NoCall]

\* One call is served at a time: the caller takes the result of a call
\* before the next call starts
Idle == resp = NoResp

respond ==
    /\ resp # NoResp
    /\ resp' = NoResp
    /\ UNCHANGED <<memory, tasks, session_context, seq, now, written, frame>>

\* The key-value store: writes by key and reads by key
NextMemory ==
    \/ /\ Idle
       /\ \E k \in MemKeys, v \in MemValues, c \in Contexts,
             p \in {None, Some(4)}, conn \in PoolResults :
              store_memory(k, v, c, p, conn)
    \/ Idle /\ \E k \in MemKeys : read_memory_by_key(k)
    \/ Idle /\ tick_second
    \/ respond

SpecMemory == Init /\ [][NextMemory]_vars

\* The task list: creation, status updates and filtered reads
TaskInputs == {"urgent fix system.rs today", "buy milk"}
Statuses == {"pending", "in_progress", "completed"}
Pages == {[limit |-> None, offset |-> None], [limit |-> Some(1), offset |-> Some(1)]}
TaskQueries ==
    {[status |-> s, priority |-> p, limit |-> pg.limit, offset |-> pg.offset,
      include_completed |-> c] :
        s \in {None, Some("pending"), Some("completed")}, p \in {None, Some(5)},
        pg \in Pages, c \in {None, Some(TRUE), Some(FALSE)}}

NextTasks ==
    \/ /\ Idle
       /\ \E input \in TaskInputs, conn \in PoolResults :
              create_task_from_input(input, None, conn)
    \/ /\ Idle
       /\ \E id \in 1..MaxTasks, status \in Statuses : set_task_status(id, status)
    \/ Idle /\ \E q \in TaskQueries, tie \in Ties : query_tasks(q, tie)
    \/ /\ Idle
       /\ \E conn \in PoolResults, tie \in Ties : get_pending_tasks(TRUE, conn, tie)
    \/ respond

SpecTasks == Init /\ [][NextTasks]_vars

\* The Query Builder over both tables: rows of every kind (inactive, expired,
\* completed) and every combination of present and absent filters
MemoryQueries ==
    {[key |-> k, category |-> c, priority |-> p, limit |-> pg.limit,
      offset |-> pg.offset, include_expired |-> e] :
        k \in {None, Some("system.rs")}, c \in {None, Some("project")},
        p \in {None, Some(4)}, pg \in Pages,
        e \in {None, Some(TRUE), Some(FALSE)}}

ValueOf(key) == IF key = "notes" THEN "buy milk" ELSE "Need changes to system.rs"
CategoryOf == [k \in MemKeys |-> categorize_content(ValueOf(k), None)]

\* the expiry and active flag of the rows a caller inserts
RowKinds ==
    {[expires_at |-> None, is_active |-> TRUE],
     [expires_at |-> None, is_active |-> FALSE]}
    \cup {[expires_at |-> Some(now + ttl), is_active |-> TRUE] : ttl \in Ttls}

NextQuery ==
    \/ /\ Idle
       /\ seq.memory + seq.tasks < MaxRows
       /\ \E k \in MemKeys, p \in {4, 5}, kind \in RowKinds :
              insert_memory_row(k, ValueOf(k), CategoryOf[k],
                                p, kind.expires_at, kind.is_active)
    \/ Idle /\ \E q \in MemoryQueries, tie \in Ties : query_memories(q, tie)
    \/ /\ Idle
       /\ seq.memory + seq.tasks < MaxRows
       /\ \E input \in TaskInputs : create_task_from_input(input, None, "Ok")
    \/ /\ Idle
       /\ \E id \in 1..MaxTasks, status \in {"pending", "completed"} :
              set_task_status(id, status)
    \/ Idle /\ \E q \in TaskQueries, tie \in Ties : query_tasks(q, tie)
    \/ respond

SpecQuery == Init /\ [][NextQuery]_vars

\* Search: stored memories of several ages, ranked against a query
SearchWrites ==
    {[key |-> "system.rs_changes", value |-> "Need changes to system.rs",
      priority |-> Some(4)],
     [key |-> "notes", value |-> "buy milk", priority |-> Some(1)],
     [key |-> "notes", value |-> "buy milk", priority |-> Some(2)],
     [key |-> "fix", value |-> "buy milk", priority |-> None]}
SearchQueries == {"urgent system.rs fix", "milk milk milk milk milk milk"}
SearchLimits == {None, Some(0), Some(1), Some(3)}

NextSearch ==
    \/ /\ Idle
       /\ \E w \in SearchWrites, conn \in PoolResults :
              store_memory(w.key, w.value, None, w.priority, conn)
    \/ /\ Idle
       /\ \E q \in SearchQueries, l \in SearchLimits, conn \in PoolResults,
             tie \in Ties : find_relevant_memories(q, l, conn, tie)
    \/ Idle /\ tick_month
    \/ respond

SpecSearch == Init /\ [][NextSearch]_vars

\* The summary: memories of several priorities and tasks, open and completed
SummaryPriorities == {Some(3), Some(4), Some(5)}

NextSummary ==
    \/ /\ Idle
       /\ \E k \in MemKeys, p \in SummaryPriorities, conn \in PoolResults :
              store_memory(k, ValueOf(k), None, p, conn)
    \/ /\ Idle
       /\ \E input \in TaskInputs, conn \in PoolResults :
              create_task_from_input(input, None, conn)
    \/ /\ Idle
       /\ \E id \in 1..MaxTasks, status \in {"pending", "completed"} :
              set_task_status(id, status)
    \/ /\ Idle
       /\ \E conn \in PoolResults, pending \in PoolResults, tie \in Ties :
              get_memory_summary(conn, pending, tie)
    \/ respond

SpecSummary == Init /\ [][NextSummary]_vars

\* Session context: writes by (session, key) and reads by session
SessionIds == {"s1", "s2"}
ContextKeys == {"topic", "mood"}
ContextValues == {"rust", "calm"}
SessionQueries ==
    {[session_id |-> s, context_key |-> k, limit |-> Some(50), offset |-> Some(0)] :
        s \in {None} \cup {Some(x) : x \in SessionIds},
        k \in {None} \cup {Some(x) : x \in ContextKeys}}

NextSession ==
    \/ /\ Idle
       /\ \E s \in SessionIds, k \in ContextKeys, v \in ContextValues,
             conn \in PoolResults : store_session_context(s, k, v, conn)
    \/ /\ Idle
       /\ \E s \in SessionIds, k \in ContextKeys, v \in ContextValues :
              queries_store_session_context(
                  [session_id |-> s, context_key |-> k, context_value |-> v])
    \/ /\ Idle
       /\ \E s \in SessionIds, conn \in PoolResults : get_session_context(s, conn)
    \/ Idle /\ \E q \in SessionQueries : query_session_contexts(q)
    \/ Idle /\ tick_second
    \/ respond

SpecSession == Init /\ [][NextSession]_vars

\* The reads that take no filter argument, over rows of every kind
SearchTexts == {"system", "MILK", "general"}

NextReads ==
    \/ /\ Idle
       /\ \E k \in MemKeys, kind \in RowKinds :
              insert_memory_row(k, ValueOf(k), CategoryOf[k], 4,
                                kind.expires_at, kind.is_active)
    \/ Idle /\ \E q \in SearchTexts, tie \in Ties : search(q, tie)
    \/ Idle /\ \E k \in MemKeys : read_memory_by_key(k)
    \/ Idle /\ tick_second
    \/ respond

SpecReads == Init /\ [][NextReads]_vars

\* The Text Interpreter on texts of one or two words or phrases, taken from
\* every rule and from none, in several cases of letters
TextWords ==
    {"URGENT", "asap", "soon", "Deadline", "later", "next week", "sometime",
     "no rush", "milk", "remind", "Remember", "code", "system.rs", "chat",
     "system", "config", "Reminder", "make sure", "don't forget"}
Texts == TextWords \cup {a \o " " \o b : a \in TextWords, b \in TextWords}

NextText ==
    \/ Idle /\ \E text \in Texts, c \in Contexts : categorize(text, c)
    \/ Idle /\ \E text \in Texts, c \in Contexts : prioritize(text, c)
    \/ respond

SpecText == Init /\ [][NextText]_vars

\* Intake: tasks from texts with and without markers, at two times of day,
\* and memories with and without an explicit priority
IntakeInputs ==
    {"remind me today", "tomorrow", "important call this week",
     "asap next week", "buy milk", "today or tomorrow", "URGENT call Today"}
IntakePriorities == {None, Some(0), Some(4), Some(9)}

NextIntake ==
    \/ /\ Idle
       /\ seq.memory + seq.tasks < MaxRows
       /\ \E input \in IntakeInputs, conn \in PoolResults :
              create_task_from_input(input, None, conn)
    \/ /\ Idle
       /\ seq.memory + seq.tasks < MaxRows
       /\ \E k \in MemKeys, p \in IntakePriorities, conn \in PoolResults :
              store_memory(k, ValueOf(k), None, p, conn)
    \/ Idle /\ tick_hours
    \/ respond

SpecIntake == Init /\ [][NextIntake]_vars

\* Reads over rows whose timestamp columns another writer has touched
TimestampColumns ==
    {"created_at", "updated_at", "expires_at", "due_date", "completed_at"}
ForeignQueries ==
    {q \in MemoryQueries :
        q.key = None /\ q.category = None /\ q.priority = None /\ q.limit = None}

NextForeign ==
    \/ /\ Idle
       /\ seq.memory + seq.tasks + seq.session_context < MaxRows
       /\ \E k \in MemKeys :
              insert_memory_row(k, ValueOf(k), CategoryOf[k], 4, None, TRUE)
    \/ /\ Idle
       /\ seq.memory + seq.tasks + seq.session_context < MaxRows
       /\ create_task_from_input("buy milk", None, "Ok")
    \/ /\ Idle
       /\ seq.memory + seq.tasks + seq.session_context < MaxRows
       /\ store_session_context("s1", "topic", "rust", "Ok")
    \/ /\ Idle
       /\ \E name \in {"memory", "tasks", "session_context"}, id \in 1..MaxRows,
             column \in TimestampColumns : foreign_write(name, id, column)
    \/ Idle /\ \E q \in ForeignQueries, tie \in Ties : query_memories(q, tie)
    \/ Idle /\ \E tie \in Ties : search("system", tie)
    \/ Idle /\ \E k \in MemKeys : read_memory_by_key(k)
    \/ /\ Idle
       /\ \E c \in {None, Some(TRUE)}, tie \in Ties :
              query_tasks([status |-> None, priority |-> None, limit |-> None,
                           offset |-> None, include_completed |-> c], tie)
    \/ Idle /\ get_session_context("s1", "Ok")
    \/ Idle /\ \E tie \in Ties : query_session_context("s1", tie)
    \/ respond

SpecForeign == Init /\ [][NextForeign]_vars

\* Lookups and updates by key, by filter and by id, on stores that hold the
\* target and on stores that do not
LookupQueries ==
    {[key |-> k, category |-> c, priority |-> p, limit |-> None,
      offset |-> None, include_expired |-> None] :
        k \in {None, Some("absent")},
        c \in {None, Some("project"), Some("reminder")},
        p \in {None, Some(1)}}

NextLookup ==
    \/ /\ Idle
       /\ seq.memory + seq.tasks < MaxRows
       /\ \E k \in MemKeys, active \in BOOLEAN :
              insert_memory_row(k, ValueOf(k), CategoryOf[k], 4, None, active)
    \/ /\ Idle
       /\ seq.memory + seq.tasks < MaxRows
       /\ \E input \in TaskInputs : create_task_from_input(input, None, "Ok")
    \/ /\ Idle
       /\ \E id \in 1..MaxTasks, status \in Statuses : set_task_status(id, status)
    \/ Idle /\ \E k \in MemKeys : read_memory_by_key(k)
    \/ Idle /\ \E q \in LookupQueries, tie \in Ties : query_memories(q, tie)
    \/ respond

SpecLookup == Init /\ [][NextLookup]_vars

\* MemoryService::calculate_relevance_score on a memory and a query; the
\* score is in tenths
score(m, query) ==
    /\ resp' = [op |-> "calculate_relevance_score", memory |-> m,
                query |-> query, at |-> now,
                score |-> calculate_relevance_score(m, query, now)]
    /\ UNCHANGED <<memory, tasks, session_context, seq, now, written, frame>>

\* Memories whose key, whose value, both or neither have a keyword of the
\* query, of two categories, two priorities and two ages
ScoreMemories ==
    {[id |-> 1, key |-> k, value |-> v, category |-> c, priority |-> p,
      metadata |-> None, created_at |-> u, updated_at |-> u,
      expires_at |-> None, is_active |-> TRUE] :
        k \in {"fix", "notes", "milk"},
        v \in {"buy milk", "Need changes to system.rs"},
        c \in {"general", "project"}, p \in {1, 4},
        u \in {now, now - 12 * Day}}

NextScore ==
    \/ /\ Idle
       /\ \E m \in ScoreMemories, q \in SearchQueries : score(m, q)
    \/ Idle /\ tick_month
    \/ respond

SpecScore == Init /\ [][NextScore]_vars

\* store_memory over rows of every kind, written at an earlier time
NextReplace ==
    \/ /\ Idle
       /\ \E k \in MemKeys, kind \in RowKinds :
              insert_memory_row(k, ValueOf(k), CategoryOf[k], 4,
                                kind.expires_at, kind.is_active)
    \/ /\ Idle
       /\ \E k \in MemKeys, v \in MemValues, p \in {None, Some(4)},
             conn \in PoolResults : store_memory(k, v, None, p, conn)
    \/ Idle /\ tick_second
    \/ respond

SpecReplace == Init /\ [][NextReplace]_vars

\* Searches whose text has one category as a whole and another word by word
CandidateQueries == {"make sure milk", "milk milk milk milk milk milk"}

NextCandidates ==
    \/ /\ Idle
       /\ seq.memory < MaxMemories
       /\ \E k \in MemKeys, c \in {"reminder", "general"}, kind \in RowKinds :
              insert_memory_row(k, ValueOf(k), c, 4, kind.expires_at,
                                kind.is_active)
    \/ /\ Idle
       /\ \E q \in CandidateQueries, conn \in PoolResults, tie \in Ties :
              find_relevant_memories(q, None, conn, tie)
    \/ respond

SpecCandidates == Init /\ [][NextCandidates]_vars

(***************************************************************************)
(* Concurrent callers of the Knowledge Service and the connection pool      *)
(***************************************************************************)
\* the positions of a call at which it waits in Pool::get
Acquiring == {"get_conn", "pending_get_conn"}

\* a caller enters MemoryService::get_memory_summary
begin_get_memory_summary(c) ==
    /\ calls[c] = NoCall
    /\ calls' = [calls EXCEPT ![c] = [pc |-> "get_conn",
                                      op |-> "get_memory_summary", held |-> 0,
                                      summary |-> "", result |-> "none"]]
    /\ UNCHANGED <<memory, tasks, session_context, seq, now, resp, written,
                   command_history, pool>>

\* a caller enters MemoryService::get_pending_tasks
begin_get_pending_tasks(c) ==
    /\ calls[c] = NoCall
    /\ calls' = [calls EXCEPT ![c] = [pc |-> "get_conn",
                                      op |-> "get_pending_tasks", held |-> 0,
                                      summary |-> "", result |-> "none"]]
    /\ UNCHANGED <<memory, tasks, session_context, seq, now, resp, written,
                   command_history, pool>>

\* MemoryService::get_conn, Pool::get with an idle connection: the caller
\* takes it
get_conn(c) ==
    /\ calls[c].pc \in Acquiring
    /\ pool > 0
    /\ pool' = pool - 1
    /\ calls' = [calls EXCEPT ![c].held = @ + 1,
                              ![c].pc = IF calls[c].pc = "pending_get_conn"
                                        THEN "get_tasks"
                                        ELSE IF calls[c].op = "get_memory_summary"
                                        THEN "get_enhanced_memories"
                                        ELSE "get_tasks"]
    /\ UNCHANGED <<memory, tasks, session_context, seq, now, resp, written,
                   command_history>>

\* MemoryService::get_conn, Pool::get with no idle connection until its
\* timeout: the error is returned with ? by the operation itself and dropped
\* by `if let Ok(tasks) = self.get_pending_tasks(true)`
get_conn_timeout(c) ==
    /\ calls[c].pc \in Acquiring
    /\ pool = 0
    /\ calls' = [calls EXCEPT ![c].pc = IF calls[c].pc = "pending_get_conn"
                                        THEN "finish" ELSE "done",
                              ![c].result = IF calls[c].pc = "pending_get_conn"
                                            THEN @ ELSE "Err"]
    /\ UNCHANGED <<memory, tasks, session_context, seq, now, resp, written,
                   command_history, pool>>

\* get_memory_summary: the select of the important memories and their lines
summary_get_enhanced_memories(c, tie) ==
    /\ calls[c].pc = "get_enhanced_memories"
    /\ LET memories == get_enhanced_memories(memory, summary_memory_query,
                                             now, tie).memories
       IN calls' = [calls EXCEPT
              ![c].summary =
                  IF memories = <<>> THEN ""
                  ELSE "Recent important memories:\n" \o memory_lines(memories)
                       \o "\n",
              ![c].pc = "pending_get_conn"]
    /\ UNCHANGED <<memory, tasks, session_context, seq, now, resp, written,
                   command_history, pool>>

\* get_pending_tasks: the select of the pending tasks; its connection is
\* dropped at its return. Called from get_memory_summary, its tasks become
\* lines of the summary.
call_get_tasks(c, tie) ==
    /\ calls[c].pc = "get_tasks"
    /\ LET found == get_tasks(tasks, pending_tasks_query, now, tie).tasks
       IN calls' = [calls EXCEPT
              ![c].held = @ - 1,
              ![c].summary =
                  IF calls[c].op = "get_memory_summary"
                  THEN @ \o (IF found = <<>> THEN ""
                             ELSE "Pending tasks:\n" \o task_lines(found))
                  ELSE @,
              ![c].result = IF calls[c].op = "get_memory_summary" THEN @
                            ELSE "Ok",
              ![c].pc = IF calls[c].op = "get_memory_summary" THEN "finish"
                        ELSE "done"]
    /\ pool' = pool + 1
    /\ UNCHANGED <<memory, tasks, session_context, seq, now, resp, written,
                   command_history>>

\* get_memory_summary returns Ok(summary); its connection is dropped
finish_get_memory_summary(c) ==
    /\ calls[c].pc = "finish"
    /\ calls' = [calls EXCEPT
           ![c].held = @ - 1,
           ![c].summary = IF @ = ""
                          THEN "No recent memories or pending tasks found."
                          ELSE @,
           ![c].result = "Ok",
           ![c].pc = "done"]
    /\ pool' = pool + 1
    /\ UNCHANGED <<memory, tasks, session_context, seq, now, resp, written,
                   command_history>>

\* the caller takes the result of its call
return(c) ==
    /\ calls[c].pc = "done"
    /\ calls' = [calls EXCEPT ![c] = NoCall]
    /\ UNCHANGED <<memory, tasks, session_context, seq, now, resp, written,
                   command_history, pool>>

\* db::queries::get_enhanced_memories, its first statement: the conditions
\* and their parameters are built and SELECT COUNT(*) runs
count_memories(c, query) ==
    /\ calls[c] = NoCall
    /\ calls' = [calls EXCEPT ![c] =
           [pc |-> "page", op |-> "get_enhanced_memories", query |-> query,
            at |-> now, total |-> memory_total(memory, query, now),
            rows |-> <<>>]]
    /\ UNCHANGED <<memory, tasks, session_context, seq, now, resp, written,
                   command_history, pool>>

\* db::queries::get_enhanced_memories, its second statement: the page
page_memories(c, tie) ==
    /\ calls[c].pc = "page"
    /\ calls[c].op = "get_enhanced_memories"
    /\ calls' = [calls EXCEPT
           ![c].rows = memory_page(memory, calls[c].query, calls[c].at, tie),
           ![c].pc = "done"]
    /\ UNCHANGED <<memory, tasks, session_context, seq, now, resp, written,
                   command_history, pool>>

\* db::queries::get_tasks, its first statement: SELECT COUNT(*)
count_tasks(c, query) ==
    /\ calls[c] = NoCall
    /\ calls' = [calls EXCEPT ![c] =
           [pc |-> "page", op |-> "get_tasks", query |-> query, at |-> now,
            total |-> task_total(tasks, query), rows |-> <<>>]]
    /\ UNCHANGED <<memory, tasks, session_context, seq, now, resp, written,
                   command_history, pool>>

\* db::queries::get_tasks, its second statement: the page
page_tasks(c, tie) ==
    /\ calls[c].pc = "page"
    /\ calls[c].op = "get_tasks"
    /\ calls' = [calls EXCEPT
           ![c].rows = task_page(tasks, calls[c].query, now, tie),
           ![c].pc = "done"]
    /\ UNCHANGED <<memory, tasks, session_context, seq, now, resp, written,
                   command_history, pool>>

\* Reads of every row in two statements while other callers write
EveryMemory ==
    [key |-> None, category |-> None, priority |-> None, limit |-> None,
     offset |-> None, include_expired |-> None]
EveryPendingTask ==
    [status |-> Some("pending"), priority |-> None, limit |-> None,
     offset |-> None, include_completed |-> None]

NextInterleaved ==
    \/ /\ Idle
       /\ seq.memory + seq.tasks < MaxRows
       /\ \E k \in MemKeys : store_memory(k, ValueOf(k), None, Some(4), "Ok")
    \/ /\ Idle
       /\ seq.memory + seq.tasks < MaxRows
       /\ create_task_from_input("buy milk", None, "Ok")
    \/ /\ Idle
       /\ \E id \in 1..MaxTasks : set_task_status(id, "completed")
    \/ respond
    \/ \E c \in Callers : count_memories(c, EveryMemory)
    \/ \E c \in Callers, tie \in Ties : page_memories(c, tie)
    \/ \E c \in Callers : count_tasks(c, EveryPendingTask)
    \/ \E c \in Callers, tie \in Ties : page_tasks(c, tie)
    \/ \E c \in Callers : return(c)

SpecInterleaved == Init /\ [][NextInterleaved]_vars

NextPool ==
    \/ /\ Idle
       /\ seq.memory + seq.tasks < MaxRows
       /\ insert_memory_row("notes", ValueOf("notes"), CategoryOf["notes"],
                            4, None, TRUE)
    \/ /\ Idle
       /\ seq.memory + seq.tasks < MaxRows
       /\ create_task_from_input("buy milk", None, "Ok")
    \/ respond
    \/ \E c \in Callers : begin_get_memory_summary(c)
    \/ \E c \in Callers : begin_get_pending_tasks(c)
    \/ \E c \in Callers : get_conn(c)
    \/ \E c \in Callers : get_conn_timeout(c)
    \/ \E c \in Callers, tie \in Ties : summary_get_enhanced_memories(c, tie)
    \/ \E c \in Callers, tie \in Ties : call_get_tasks(c, tie)
    \/ \E c \in Callers : finish_get_memory_summary(c)
    \/ \E c \in Callers : return(c)

SpecPool == Init /\ [][NextPool]_vars

(***************************************************************************)
(* api::system: execute_command                                            *)
(***************************************************************************)
SAFE_COMMANDS ==
    {"ls", "pwd", "whoami", "date", "uptime", "free", "df", "ps", "top", "htop",
     "cat", "head", "tail", "grep", "find", "locate", "which", "whereis",
     "echo", "printf", "wc", "sort", "uniq", "cut", "paste", "join",
     "mkdir", "rmdir", "touch", "cp", "mv", "rm", "chmod", "chown",
     "git", "npm", "cargo", "python", "node", "bash", "sh", "zsh", "fish",
     "code", "vim", "nano", "emacs", "firefox", "chrome", "chromium",
     "xdg-open", "open", "start", "xdg-mime", "file", "type", "stat",
     "du", "tree", "ncdu", "rsync", "scp", "ssh", "curl", "wget",
     "ping", "traceroute", "netstat", "ss", "ip", "ifconfig", "route",
     "systemctl", "service", "journalctl", "log", "dmesg", "lspci", "lsusb"}

DANGEROUS_COMMANDS ==
    {"rm -rf /", "rm -rf /*", "dd if=/dev/zero", "mkfs", "fdisk", "parted",
     "chmod 777", "chown root", "sudo rm", "sudo dd", "sudo mkfs",
     "format", "del", "erase", "wipe", "shred", "srm"}

\* db::queries::store_command_history: one more row, with the next id
store_command_history(table, command, args, success, t) ==
    Append(table, [id |-> Len(table) + 1, command |-> command, args |-> args,
                   success |-> success, user_confirmed |-> TRUE,
                   created_at |-> t])

\* api::system::execute_command. output is what the operating system makes
\* of the command (it starts or not, it exits with success or not) and
\* stored is the result of the INSERT into command_history, which the handler
\* ignores.
execute_command(payload, output, stored) ==
    IF \E dangerous \in DANGEROUS_COMMANDS : contains(payload.command, dangerous)
    THEN /\ resp' = [op |-> "execute_command", payload |-> payload,
                     status |-> "FORBIDDEN", blocked |-> TRUE,
                     executed |-> FALSE]
         /\ UNCHANGED <<memory, tasks, session_context, seq, now, written, frame>>
    ELSE LET is_safe == payload.command \in SAFE_COMMANDS
             require_confirmation ==
                 unwrap_or(payload.require_confirmation, ~is_safe)
         IN IF require_confirmation /\ ~is_safe
            THEN /\ resp' = [op |-> "execute_command", payload |-> payload,
                             status |-> "BAD_REQUEST", blocked |-> FALSE,
                             executed |-> FALSE]
                 /\ UNCHANGED <<memory, tasks, session_context, seq, now,
                                written, frame>>
            ELSE IF output.started
            THEN /\ resp' = [op |-> "execute_command", payload |-> payload,
                             status |-> "OK", blocked |-> FALSE,
                             executed |-> TRUE]
                 /\ command_history' =
                        IF stored = "Ok"
                        THEN store_command_history(command_history,
                                 payload.command, payload.args,
                                 output.success, now)
                        ELSE command_history
                 /\ UNCHANGED <<memory, tasks, session_context, seq, now,
                                written, pool, calls>>
            ELSE /\ resp' = [op |-> "execute_command", payload |-> payload,
                             status |-> "INTERNAL_SERVER_ERROR",
                             blocked |-> FALSE, executed |-> FALSE]
                 /\ UNCHANGED <<memory, tasks, session_context, seq, now,
                                written, frame>>

\* Requests with commands in and out of the whitelist and the blocked list,
\* with and without arguments, and every value of require_confirmation
Commands == {"ls", "rm", "nmap", "rm -rf /", "sudo rm notes", "model"}
CommandRequests ==
    {[command |-> c, args |-> a, require_confirmation |-> r] :
        c \in Commands, a \in {None, Some(<<"-l">>)},
        r \in {None, Some(TRUE), Some(FALSE)}}
Outputs ==
    {[started |-> FALSE, success |-> FALSE], [started |-> TRUE, success |-> FALSE],
     [started |-> TRUE, success |-> TRUE]}

NextCommands ==
    \/ /\ Idle
       /\ Len(command_history) < MaxCommands
       /\ \E payload \in CommandRequests, output \in Outputs,
             stored \in PoolResults : execute_command(payload, output, stored)
    \/ respond

SpecCommands == Init /\ [][NextCommands]_vars

(***************************************************************************)
(* Properties                                                              *)
(***************************************************************************)
rows_of(page) == {page[i] : i \in 1..Len(page)}

\* C1: after any sequence of writes through store_memory the table holds
\* exactly one row for each key written, that row carries the value of the
\* latest write of the key, and a read by the key returns that value.
UpsertLastWriterWins ==
    /\ \A k \in MemKeys :
          written[k] # None =>
              /\ Cardinality({r \in memory : r.key = k}) = 1
              /\ \A r \in memory : r.key = k => r.value = written[k][1]
    /\ \A r \in memory : written[r.key] # None
    /\ (resp.op = "get_memory_by_key" /\ written[resp.key] # None) =>
          /\ resp.result # None
          /\ resp.result[1].value = written[resp.key][1]

\* a key written twice, read back: one row, with the id of the second write
UpsertWitness ==
    /\ resp.op = "get_memory_by_key"
    /\ resp.result # None
    /\ resp.result[1].id = 2
    /\ Cardinality(memory) = 1

\* C2: every task has a completed_at exactly when its status is "completed".
CompletedAtIffCompleted ==
    \A r \in tasks : (r.completed_at # None) <=> (r.status = "completed")

\* C3: the total returned by get_enhanced_memories and by get_tasks is the
\* number of rows the same filters return with offset 0 and no limit.
unbounded(query) == [query EXCEPT !.limit = Some(-1), !.offset = Some(0)]

TotalIsCountOfAllMatches ==
    /\ resp.op = "get_enhanced_memories" =>
          resp.result.total =
              Len(memory_page(memory, unbounded(resp.query), resp.at, "rowid"))
    /\ resp.op = "get_tasks" =>
          resp.result.total =
              Len(task_page(tasks, unbounded(resp.query), resp.at, "rowid"))

\* a filtered count that leaves a stored row out
TotalWitness ==
    /\ resp.op = "get_enhanced_memories"
    /\ resp.query.category # None
    /\ resp.result.total = 1
    /\ Cardinality(memory) = 2

\* C4: get_enhanced_memories never returns an inactive memory, and unless
\* include_expired is true never one whose expires_at is before the query time.
expired_before(m, t) == m.expires_at # None /\ m.expires_at[1] < t

MemoryReadsExcludeInactiveAndExpired ==
    resp.op = "get_enhanced_memories" =>
        \A m \in rows_of(resp.result.memories) :
            /\ m.is_active
            /\ ~unwrap_or(resp.query.include_expired, FALSE)
                   => ~expired_before(m, resp.at)

\* a default read over an expired row and an inactive row returns neither
ExclusionWitness ==
    /\ resp.op = "get_enhanced_memories"
    /\ resp.query.include_expired = None
    /\ \E r \in memory : r.is_active /\ expired_before(r, resp.at)
    /\ \E r \in memory : ~r.is_active
    /\ resp.result.memories = <<>>
    /\ resp.result.total = 0

\* C5: get_tasks returns no completed task unless include_completed is true,
\* whatever the status and priority filters; with include_completed true the
\* completed tasks matching the other filters are returned.  get_pending_tasks
\* returns no completed task.
matches_task_filters(r, query) ==
    /\ query.status # None => r.status = query.status[1]
    /\ query.priority # None => r.priority = query.priority[1]

TaskReadsExcludeCompleted ==
    /\ resp.op = "get_tasks" =>
          IF unwrap_or(resp.query.include_completed, FALSE)
          THEN (resp.query.limit = None /\ resp.query.offset = None) =>
                   \A r \in tasks :
                       (r.status = "completed" /\ matches_task_filters(r, resp.query))
                           => r \in rows_of(resp.result.tasks)
          ELSE \A r \in rows_of(resp.result.tasks) : r.status # "completed"
    /\ resp.op = "get_pending_tasks" =>
          \A r \in rows_of(resp.tasks) : r.status = "pending"

\* a default read over a completed and an open task returns the open one only
CompletedExcludedWitness ==
    /\ resp.op = "get_tasks"
    /\ resp.query.include_completed = None
    /\ resp.query.status = None
    /\ \E r \in tasks : r.status = "completed"
    /\ Len(resp.result.tasks) = 1

\* C6: no two entries of the list find_relevant_memories returns have the
\* same key.
SearchResultHasNoDuplicateKeys ==
    resp.op = "find_relevant_memories" =>
        \A i, j \in 1..Len(resp.memories) :
            i # j => resp.memories[i].key # resp.memories[j].key

\* C7: find_relevant_memories returns at most limit entries for a limit >= 0
\* and at most 10 entries when no limit is supplied.
SearchReturnsAtMostLimit ==
    resp.op = "find_relevant_memories" =>
        /\ resp.limit = None => Len(resp.memories) <= 10
        /\ (resp.limit # None /\ resp.limit[1] >= 0)
               => Len(resp.memories) <= resp.limit[1]

\* twelve candidates cut to the default of ten
DefaultLimitWitness ==
    /\ resp.op = "find_relevant_memories"
    /\ resp.limit = None
    /\ Len(resp.memories) = 10
    /\ Cardinality(memory) = 2

\* the entry and the query of the ranking example, and the memories the
\* example calls unrelated: general, of low priority, sharing no keyword with
\* the query in key or value
ExampleQuery == "urgent system.rs fix"
is_example_entry(m) ==
    m.key = "system.rs_changes" /\ m.category = "project" /\ m.priority = 4
is_unrelated(m, query) ==
    /\ m.category = "general"
    /\ m.priority <= 2
    /\ \A i \in 1..Len(keywords_of(query)) :
          /\ ~vec_contains(keywords_of(m.value), keywords_of(query)[i])
          /\ ~vec_contains(keywords_of(m.key), keywords_of(query)[i])
score_at(i) == calculate_relevance_score(resp.memories[i], resp.query, resp.at)
descending_by_score ==
    \A i, j \in 1..Len(resp.memories) : i < j => score_at(i) >= score_at(j)
example_precedes_unrelated ==
    \A i, j \in 1..Len(resp.memories) :
        (is_example_entry(resp.memories[i])
         /\ is_unrelated(resp.memories[j], resp.query)) => i < j

\* C8 as stated: the result is in descending order of score, and for the
\* example query a stored example entry is returned (a limit of at least one
\* entry being understood) and precedes every unrelated low-priority general
\* memory.
RankedAndExampleReturned ==
    (resp.op = "find_relevant_memories" /\ resp.result = "Ok") =>
        /\ descending_by_score
        /\ resp.query = ExampleQuery =>
              /\ example_precedes_unrelated
              /\ unwrap_or(resp.limit, 10) >= 1 =>
                    \A m \in memory :
                        is_example_entry(m) => m \in rows_of(resp.memories)

\* C8: the result is in descending order of score; for the example query the
\* example entry precedes every unrelated low-priority general memory of the
\* result, whatever their ages; and it is in the result when it is stored,
\* active and unexpired, at most ten active unexpired project memories are
\* stored, and the result is shorter than the limit.
RankedAndExampleFirst ==
    (resp.op = "find_relevant_memories" /\ resp.result = "Ok") =>
        /\ descending_by_score
        /\ resp.query = ExampleQuery =>
              /\ example_precedes_unrelated
              /\ \A m \in memory :
                    (/\ is_example_entry(m)
                     /\ m.is_active
                     /\ ~expired_before(m, resp.at)
                     /\ Cardinality({r \in memory :
                            /\ r.category = "project"
                            /\ r.is_active
                            /\ ~expired_before(r, resp.at)}) <= 10
                     /\ Len(resp.memories) < unwrap_or(resp.limit, 10))
                        => m \in rows_of(resp.memories)

\* the example entry, a month older than an unrelated memory, ranked first
\* and the unrelated memory last
ExampleRankedWitness ==
    /\ resp.op = "find_relevant_memories"
    /\ resp.query = ExampleQuery
    /\ resp.limit = None
    /\ Len(resp.memories) > 1
    /\ is_example_entry(resp.memories[1])
    /\ is_unrelated(resp.memories[Len(resp.memories)], resp.query)
    /\ resp.memories[1].updated_at
           < resp.memories[Len(resp.memories)].updated_at

\* C9: get_memory_summary lists every active, unexpired memory of priority
\* 4 or more (when there are at most 5) and every pending task, and returns
\* the fixed sentence on an empty store.
SummaryListsImportantAndPending ==
    (resp.op = "get_memory_summary" /\ resp.result = "Ok" /\ resp.pending = "Ok") =>
        LET important == {m \in memory : /\ m.is_active
                                         /\ ~expired_before(m, resp.at)
                                         /\ m.priority >= 4}
        IN /\ Cardinality(important) <= 5 =>
                 \A m \in important :
                     contains(resp.text, "- " \o m.key \o ": " \o m.value \o "\n")
           /\ \A r \in tasks :
                 r.status = "pending" =>
                     contains(resp.text, "- " \o r.title \o " [Priority: ")
           /\ (memory = {} /\ tasks = {}) =>
                 resp.text = "No recent memories or pending tasks found."

\* C10: MemoryService::get_session_context(s) returns an entry for every
\* (key, value) stored for s, and the total of get_session_contexts is the
\* number of rows matching its filters.
SessionContextRoundTrip ==
    /\ (resp.op = "get_session_context" /\ resp.result = "Ok") =>
          \A r \in session_context :
              r.session_id = resp.session_id =>
                  \E i \in 1..Len(resp.contexts) :
                      /\ resp.contexts[i].context_key = r.context_key
                      /\ resp.contexts[i].context_value = r.context_value
    /\ resp.op = "get_session_contexts" =>
          resp.result.total =
              Cardinality({r \in session_context :
                  /\ resp.query.session_id # None
                         => r.session_id = resp.query.session_id[1]
                  /\ resp.query.context_key # None
                         => r.context_key = resp.query.context_key[1]})

\* C11: a session-context write for a (session_id, context_key) pair, already
\* stored or not, made with a connection at hand, succeeds and leaves exactly
\* one row for the pair, carrying the written value; on every write path.
SessionWriteUpserts ==
    (resp.op \in {"store_session_context", "queries::store_session_context"}
     /\ resp.conn = "Ok") =>
        /\ resp.result = "Ok"
        /\ Cardinality({r \in session_context :
               /\ r.session_id = resp.context.session_id
               /\ r.context_key = resp.context.context_key}) = 1
        /\ \A r \in session_context :
               (/\ r.session_id = resp.context.session_id
                /\ r.context_key = resp.context.context_key)
                   => r.context_value = resp.context.context_value

\* C12: search_memories and get_memory_by_key return no memory that is
\* inactive or whose expires_at is before the time of the read.
UnfilteredReadsExcludeInactiveAndExpired ==
    /\ resp.op = "search_memories" =>
          \A m \in rows_of(resp.result.memories) :
              m.is_active /\ ~expired_before(m, resp.at)
    /\ (resp.op = "get_memory_by_key" /\ resp.result # None) =>
          \A r \in memory :
              r.id = resp.result[1].id =>
                  r.is_active /\ ~expired_before(r, resp.at)

\* C13: the page get_enhanced_memories and get_tasks return for limit L and
\* offset O (50 and 0 when absent) is the elements O .. O+L-1 of the full
\* result for the same filters as the statement orders it, and the full result
\* is in descending order of priority, then of updated_at (memories) or
\* created_at (tasks).
slice(full, offset, limit) ==
    LET rest == IF Len(full) > offset THEN Len(full) - offset ELSE 0
    IN [i \in 1..(IF limit < rest THEN limit ELSE rest) |-> full[offset + i]]
in_order(full, time_col) ==
    \A i, j \in 1..Len(full) :
        i < j => \/ full[i].priority > full[j].priority
                 \/ /\ full[i].priority = full[j].priority
                    /\ full[i][time_col] >= full[j][time_col]

mentions(text, words) == \E w \in words : contains(to_lowercase(text), w)
UrgencyWords == {"urgent", "important", "critical", "asap", "emergency"}
NearTermWords == {"soon", "today", "this week", "deadline"}
SoftenedWords == {"later", "next week", "when you can"}
LowUrgencyWords == {"sometime", "eventually", "no rush"}

PriorityByFirstRule ==
    resp.op = "determine_priority" =>
        LET text == resp.content
            expected ==
                IF mentions(text, UrgencyWords) THEN 5
                ELSE IF mentions(text, NearTermWords) THEN 4
                ELSE IF mentions(text, SoftenedWords) THEN 3
                ELSE IF mentions(text, LowUrgencyWords) THEN 2
                ELSE 3
        IN /\ resp.priority = expected
           /\ resp.priority \in 1..5
           /\ (mentions(text, {"urgent"}) /\ mentions(text, {"sometime"}))
                  => resp.priority = 5
           /\ \A c \in Contexts : determine_priority(text, c) = resp.priority

\* a text with "URGENT" and "sometime" gets 5
UrgentSometimeWitness ==
    /\ resp.op = "determine_priority"
    /\ mentions(resp.content, {"urgent"})
    /\ mentions(resp.content, {"sometime"})
    /\ resp.priority = 5

\* C15: categorize_content returns the category of the first rule, in the
\* order task, reminder, project, conversation, system, preference, that has
\* a keyword in the lower-cased text, and general when no rule has one.
CategoryRules ==
    << [category |-> "task",
        words |-> {"remind", "todo", "task", "due", "deadline", "schedule"}],
       [category |-> "reminder",
        words |-> {"reminder", "remember", "don't forget", "make sure"}],
       [category |-> "project",
        words |-> {"project", "repository", "code", "development", "file",
                   "system.rs"}],
       [category |-> "conversation",
        words |-> {"conversation", "chat", "discussion", "talk"}],
       [category |-> "system",
        words |-> {"system", "computer", "terminal", "command"}],
       [category |-> "preference",
        words |-> {"preference", "setting", "config", "option"}] >>

CategoryByFirstRule ==
    resp.op = "categorize_content" =>
        LET matching == {i \in 1..Len(CategoryRules) :
                            mentions(resp.content, CategoryRules[i].words)}
        IN IF matching = {} THEN resp.category = "general"
           ELSE \E i \in matching :
                    /\ \A j \in matching : i <= j
                    /\ resp.category = CategoryRules[i].category

\* a text with keywords of the project, the conversation and the system rule
\* gets the category of the project rule
SeveralRulesWitness ==
    /\ resp.op = "categorize_content"
    /\ mentions(resp.content, CategoryRules[3].words)
    /\ mentions(resp.content, CategoryRules[4].words)
    /\ mentions(resp.content, CategoryRules[5].words)
    /\ resp.category = "project"

\* C16: the due date of a task created from a text is 18:00 UTC of the
\* calendar day of now for "today", 18:00 UTC of the next calendar day for
\* "tomorrow", now + 7 days for "this week", now + 14 days for "next week"
\* (the first of these markers in this order that the text has), and absent
\* without a marker; at 2024-06-28T10:00:00Z "remind me today" gives
\* 2024-06-28T18:00:00Z and "tomorrow" gives 2024-06-29T18:00:00Z.
DueDateByMarker ==
    (resp.op = "create_task_from_input" /\ resp.result = "Ok") =>
        LET at == resp.task.created_at
            due == resp.task.due_date
            evening_of(d, day) ==
                /\ format_date(d) = format_date(day)
                /\ SubSeq(to_rfc3339(d), 11, 25) = "T18:00:00+00:00"
        IN /\ IF mentions(resp.input, {"today"})
              THEN due # None /\ evening_of(due[1], at)
              ELSE IF mentions(resp.input, {"tomorrow"})
              THEN due # None /\ evening_of(due[1], at + Day)
              ELSE IF mentions(resp.input, {"this week"})
              THEN due = Some(at + 7 * Day)
              ELSE IF mentions(resp.input, {"next week"})
              THEN due = Some(at + 14 * Day)
              ELSE due = None
           /\ to_rfc3339(at) = "2024-06-28T10:00:00+00:00" =>
                 /\ resp.input = "remind me today" =>
                       to_rfc3339(due[1]) = "2024-06-28T18:00:00+00:00"
                 /\ resp.input = "tomorrow" =>
                       to_rfc3339(due[1]) = "2024-06-29T18:00:00+00:00"

\* "remind me today" at 2024-06-28T10:00:00Z is due 2024-06-28T18:00:00Z
DueTodayWitness ==
    /\ resp.op = "create_task_from_input"
    /\ resp.result = "Ok"
    /\ resp.input = "remind me today"
    /\ to_rfc3339(resp.task.created_at) = "2024-06-28T10:00:00+00:00"
    /\ to_rfc3339(resp.task.due_date[1]) = "2024-06-28T18:00:00+00:00"

\* C17: the priority of the task create_task_from_input creates from a text
\* is the priority determine_priority gives the same text.
TaskPriorityIsTextPriority ==
    (resp.op = "create_task_from_input" /\ resp.result = "Ok") =>
        resp.task.priority = determine_priority(resp.input, None)

\* C18: every memory row and every task row has a priority in 1..5.
PrioritiesInRange ==
    /\ \A r \in memory : r.priority \in 1..5
    /\ \A r \in tasks : r.priority \in 1..5

\* C19: whatever text a timestamp column of a stored row holds, the reads
\* get_enhanced_memories, get_tasks, search_memories, get_memory_by_key and
\* get_session_context return successfully, and no returned timestamp is the
\* malformed text.
well_formed(column) == column # Malformed
well_formed_or_absent(column) == column = None \/ column[1] # Malformed

ReadsSurviveMalformedTimestamps ==
    /\ resp.op = "get_enhanced_memories" =>
          \A m \in rows_of(resp.result.memories) :
              /\ well_formed(m.created_at)
              /\ well_formed(m.updated_at)
              /\ well_formed_or_absent(m.expires_at)
    /\ resp.op = "get_tasks" =>
          \A r \in rows_of(resp.result.tasks) :
              /\ well_formed(r.created_at)
              /\ well_formed(r.updated_at)
              /\ well_formed_or_absent(r.due_date)
              /\ well_formed_or_absent(r.completed_at)
    /\ resp.op = "search_memories" =>
          /\ resp.result.result = "Ok"
          /\ \A m \in rows_of(resp.result.memories) :
                /\ well_formed(m.created_at)
                /\ well_formed(m.updated_at)
                /\ well_formed_or_absent(m.expires_at)
    /\ (resp.op = "get_memory_by_key" /\ resp.result # None) =>
          /\ well_formed(resp.result[1].created_at)
          /\ well_formed(resp.result[1].updated_at)
    /\ resp.op = "get_session_context" => resp.result = "Ok"
    /\ resp.op = "queries::get_session_context" =>
          \A c \in rows_of(resp.result.contexts) :
              well_formed(c.created_at) /\ well_formed(c.updated_at)

\* C20: when an acquisition of a pooled connection fails during
\* get_memory_summary, its own or the one get_pending_tasks makes for it, the
\* operation returns the error.
PoolFailureIsReturned ==
    (resp.op = "get_memory_summary" /\ (resp.conn = "Err" \/ resp.pending = "Err"))
        => resp.result = "Err"

\* C21: an operation that targets nothing returns an explicit empty result
\* and changes no table: get_memory_by_key of a key no row has returns none,
\* get_enhanced_memories with a filter no row passes returns an empty page
\* with total 0, and update_task_status of an id no task has returns success
\* and leaves every task as it was.
no_row_passes(query) ==
    \/ memory = {}
    \/ \A r \in memory : ~r.is_active
    \/ query.key # None /\ \A r \in memory : ~contains(r.key, query.key[1])
    \/ query.category # None /\ \A r \in memory : r.category # query.category[1]
    \/ query.priority # None /\ \A r \in memory : r.priority # query.priority[1]

NothingTargetedStep ==
    /\ (resp'.op = "get_memory_by_key" /\ \A r \in memory : r.key # resp'.key) =>
          /\ resp'.result = None
          /\ UNCHANGED <<memory, tasks, session_context>>
    /\ (resp'.op = "get_enhanced_memories" /\ no_row_passes(resp'.query)) =>
          /\ resp'.result.memories = <<>>
          /\ resp'.result.total = 0
          /\ UNCHANGED <<memory, tasks, session_context>>
    /\ (resp'.op = "update_task_status"
        /\ \A r \in tasks : r.id # resp'.task_id) =>
          /\ resp'.result = "Ok"
          /\ UNCHANGED <<memory, tasks, session_context>>

NothingTargetedIsEmptyAndChangesNothing == [][NothingTargetedStep]_vars

\* update_task_status of an id no task has returned success while a task of
\* another id is stored
AbsentTaskUpdatedWitness ==
    /\ resp.op = "update_task_status"
    /\ resp.result = "Ok"
    /\ tasks # {}
    /\ \A r \in tasks : r.id # resp.task_id

\* C22: a request whose command is not in SAFE_COMMANDS is never executed
\* and never recorded in command_history, whatever require_confirmation it
\* carries; a request whose command contains an entry of DANGEROUS_COMMANDS is
\* rejected as blocked and not executed.
WhitelistEnforced ==
    /\ \A i \in 1..Len(command_history) :
          command_history[i].command \in SAFE_COMMANDS
    /\ resp.op = "execute_command" =>
          /\ resp.payload.command \notin SAFE_COMMANDS => ~resp.executed
          /\ (\E d \in DANGEROUS_COMMANDS : contains(resp.payload.command, d)) =>
                /\ resp.status = "FORBIDDEN"
                /\ resp.blocked
                /\ ~resp.executed

\* C23: the title of a task created from a text has no occurrence, in any
\* case of letters, of a marker that was recognised in the text and decided
\* the priority or the due date; it has no leading or trailing whitespace;
\* the description is empty.
first_present(text, groups) ==
    IF \E i \in 1..Len(groups) : mentions(text, groups[i])
    THEN LET i == CHOOSE i \in 1..Len(groups) :
                      /\ mentions(text, groups[i])
                      /\ \A j \in 1..(i - 1) : ~mentions(text, groups[j])
         IN {m \in groups[i] : mentions(text, {m})}
    ELSE {}

deciding_markers(text) ==
    first_present(text, << {"urgent", "critical"},
                           {"important", "high priority"}, {"low priority"} >>)
    \cup first_present(text, << {"today"}, {"tomorrow"}, {"this week"},
                                {"next week"} >>)

TitleHasNoDecidingMarker ==
    (resp.op = "create_task_from_input" /\ resp.result = "Ok") =>
        /\ \A m \in deciding_markers(resp.input) : ~mentions(resp.task.title, {m})
        /\ resp.task.title = trim(resp.task.title)
        /\ resp.task.description = None

\* C24: no operation of the Knowledge Service asks the pool for a connection
\* while it holds one, so no caller waits for a connection that a waiting
\* caller holds.
NoAcquisitionWhileHolding ==
    \A c \in Callers : calls[c].pc \in Acquiring => calls[c].held = 0

\* C25: every active, unexpired memory whose category is the category of the
\* whole query text is among the memories find_relevant_memories gathers
\* (fewer rows are stored than a page of a pass holds, and no limit is given,
\* so every gathered memory is returned).
CategoryPassUsesQueryCategory ==
    (resp.op = "find_relevant_memories" /\ resp.result = "Ok") =>
        \A r \in memory :
            (/\ r.is_active
             /\ (r.expires_at = None \/ r.expires_at[1] > resp.at)
             /\ r.category = categorize_content(resp.query, None))
            => \E i \in 1..Len(resp.memories) : resp.memories[i].key = r.key

\* C26: with include_expired absent or false, get_enhanced_memories leaves
\* out an active memory exactly when its expires_at is set and strictly
\* before the query time; one whose expires_at is the query time, or is not
\* set, is returned.
ExpiryIsStrict ==
    (/\ resp.op = "get_enhanced_memories"
     /\ ~unwrap_or(resp.query.include_expired, FALSE)
     /\ resp.query.key = None /\ resp.query.category = None
     /\ resp.query.priority = None
     /\ resp.query.limit = None /\ resp.query.offset = None) =>
        \A r \in memory :
            r.is_active =>
                ((\E m \in rows_of(resp.result.memories) : m.key = r.key)
                     <=> ~expired_before(r, resp.at))

\* C27: calculate_relevance_score is, in tenths: 100 for each keyword of the
\* query that is a keyword of the memory's value, 150 for each that is a
\* keyword of the memory's key, 50 if the category of the query is the
\* memory's, 10 times the priority, and 30 less the age in whole days if that
\* is positive; a memory whose key has a keyword of the query scores strictly
\* higher than one of the same category, priority and age whose value alone
\* has it, the other keywords of the query matching both alike.
words(text) ==
    LET ws == split_whitespace(to_lowercase(text))
    IN {ws[i] : i \in 1..Len(ws)}

is_keyword(w) == w \notin stop_words /\ Len(w) > 2

value_match(m, qk) == is_keyword(qk) /\ qk \in words(m.value)
key_match(m, qk) == is_keyword(qk) /\ qk \in words(m.key)

expected_score(m, query, t) ==
    LET qs == split_whitespace(to_lowercase(query))
        age == (t - m.updated_at) \div Day
    IN 100 * Cardinality({i \in 1..Len(qs) : value_match(m, qs[i])})
       + 150 * Cardinality({i \in 1..Len(qs) : key_match(m, qs[i])})
       + (IF categorize_content(query, None) = m.category THEN 50 ELSE 0)
       + 10 * m.priority
       + (IF 30 - age > 0 THEN 30 - age ELSE 0)

TotalIsNumberOfReturnedRows ==
    \A c \in Callers :
        (calls[c].pc = "done" /\ calls[c].op \in {"get_enhanced_memories",
                                                   "get_tasks"})
            => calls[c].total = Len(calls[c].rows)


\* C28 as amended: the total of a get_enhanced_memories or get_tasks call is
\* the number of rows that match when its count statement runs, and the rows
\* it returns (with a limit that holds every match) are the rows that match
\* when its page statement runs; the total is the number of returned rows
\* whenever as many rows match at the page statement as at the count
\* statement.
matching_now(call) ==
    IF call.op = "get_enhanced_memories"
    THEN Cardinality({r \in memory :
             /\ r.is_active
             /\ \/ unwrap_or(call.query.include_expired, FALSE)
                \/ r.expires_at = None
                \/ r.expires_at[1] > call.at
             /\ call.query.category # None => r.category = call.query.category[1]
             /\ call.query.priority # None => r.priority = call.query.priority[1]
             /\ call.query.key # None => contains(r.key, call.query.key[1])})
    ELSE Cardinality({r \in tasks :
             /\ matches_task_filters(r, call.query)
             /\ ~unwrap_or(call.query.include_completed, FALSE)
                    => r.status # "completed"})

StatementSeesItsOwnState ==
    \A c \in Callers :
        /\ (calls[c] = NoCall /\ calls'[c].pc = "page") =>
              calls'[c].total = matching_now(calls'[c])
        /\ (calls[c].pc = "page" /\ calls'[c].pc = "done") =>
              /\ calls'[c].total = calls[c].total
              /\ Len(calls'[c].rows) = matching_now(calls[c])
              /\ calls[c].total = matching_now(calls[c])
                     => calls'[c].total = Len(calls'[c].rows)

TotalAndPageEachOfTheirStatement == [][StatementSeesItsOwnState]_vars

\* a get_enhanced_memories call counted no row, another caller stored a
\* memory, and the call returned it
WriteBetweenStatementsWitness ==
    \E c \in Callers :
        /\ calls[c].pc = "done"
        /\ calls[c].op = "get_enhanced_memories"
        /\ calls[c].total = 0
        /\ Len(calls[c].rows) = 1


\* C29: store_memory replaces the whole row of its key: after it the one row
\* of the key is active, has no expires_at, has the time of the call as its
\* created_at and has an id greater than every id assigned before; the rows
\* of the other keys are as they were.
StoreMemoryStep ==
    (resp = NoResp /\ resp'.op = "store_memory" /\ resp'.result = "Ok") =>
        /\ \E r \in memory' :
              /\ r.key = resp'.key
              /\ \A o \in memory' : o.key = r.key => o = r
              /\ r.is_active
              /\ r.expires_at = None
              /\ r.created_at = now
              /\ r.id > seq.memory
              /\ \A o \in memory : r.id > o.id
        /\ {r \in memory' : r.key # resp'.key}
               = {r \in memory : r.key # resp'.key}

StoreMemoryReplacesWholeRow == [][StoreMemoryStep]_vars

\* store_memory of a key that had a row, a second after that row was written:
\* one row, of the second id, created at the time of the call
RowReplacedWitness ==
    /\ resp.op = "store_memory"
    /\ resp.result = "Ok"
    /\ now > Epoch
    /\ memory # {}
    /\ \A r \in memory :
          r.key = resp.key /\ r.id = 2 /\ r.created_at = now /\ r.is_active


\* C30: categorize_content never gives reminder to a text that has "remind":
\* a text with "reminder" is a task, reminder is the category only of texts
\* with "remember", "don't forget" or "make sure" that have no keyword of the
\* task rule, and the context does not change the result.
ReminderOnlyWithoutTaskWords ==
    resp.op = "categorize_content" =>
        /\ mentions(resp.content, {"remind"}) => resp.category # "reminder"
        /\ mentions(resp.content, {"reminder"}) => resp.category = "task"
        /\ resp.category = "reminder" =>
              /\ mentions(resp.content, {"remember", "don't forget", "make sure"})
              /\ ~mentions(resp.content, CategoryRules[1].words)
        /\ \A c \in Contexts :
              categorize_content(resp.content, c) = resp.category

\* "Reminder", with a reminder phrase beside it, is a task
ReminderIsTaskWitness ==
    /\ resp.op = "categorize_content"
    /\ mentions(resp.content, {"reminder"})
    /\ mentions(resp.content, {"make sure"})
    /\ resp.category = "task"

====
